---- MODULE Spec2Model ----
(***************************************************************************)
(* State-machine model of the DynamicForm engine (rhf-dynamic-forms):      *)
(* the watch subscription of the DynamicForm component (visibility         *)
(* recomputation, cascading dependency resets, onChange notification),     *)
(* the selection of the validation resolver, the field renderer's          *)
(* visibility check, the per-field schema rules, the synthesis of the      *)
(* nested schema shape, the validation of custom components, the rule      *)
(* evaluator, the formatting of configuration errors and the mounting of   *)
(* a form whose custom components are or are not registered.               *)
(*                                                                         *)
(* JavaScript values are modelled as pairs <<tag, payload>> so that the    *)
(* strict equality (===) of the code is equality of pairs.  Form data is   *)
(* a nested object: a function from key to value or to a nested object.    *)
(* Field names are dot paths, modelled as the sequence of their segments   *)
(* ("address.country" is <<"address", "country">>).                        *)
(***************************************************************************)
EXTENDS Integers, Sequences, FiniteSets, TLC

(***************************************************************************)
(* Bounds of the model.                                                    *)
(***************************************************************************)
\* text inputs are the strings "", "a", "aa", ... of at most MaxLen characters
MaxLen == 1
\* frames of the re-entrant watch callback that may be open at once
MaxDepth == 6
\* strings handed to a single field's schema have at most MaxChars characters
MaxChars == 4
\* minLength / maxLength of a validated field are at most MaxRule
MaxRule == 3
\* dot paths installed into a schema shape have at most MaxSegments segments
MaxSegments == 2
\* one synthesis installs at most MaxPaths field schemas
MaxPaths == 2
\* the parent hands the form at most MaxConfigs configuration objects
MaxConfigs == 2
\* a validated configuration has at most MaxElements top-level elements
MaxElements == 2

(***************************************************************************)
(* JavaScript values.                                                      *)
(***************************************************************************)
Undefined == <<"undefined", "">>
Str(s) == <<"string", s>>
Bool(b) == <<"boolean", IF b THEN "true" ELSE "false">>
Num(n) == <<"number", ToString(n)>>

Truthy(v) ==
  CASE v[1] = "undefined" -> FALSE
    [] v[1] = "boolean" -> v[2] = "true"
    [] v[1] = "string" -> v[2] # ""
    [] v[1] = "number" -> v[2] # "0"
    [] OTHER -> TRUE

RECURSIVE Repeat(_)
Repeat(n) == IF n = 0 THEN "" ELSE "a" \o Repeat(n - 1)

\* the strings a text input can be given
Strings == {Repeat(n) : n \in 0..MaxLen}

NoName == <<>>
EmptyObject == <<>>

\* parts.join(separator), for an array that is not empty
RECURSIVE Join(_, _)
Join(parts, separator) ==
  IF Len(parts) = 1 THEN parts[1]
  ELSE parts[1] \o separator \o Join(Tail(parts), separator)

(***************************************************************************)
(* Paths into nested form data.                                            *)
(***************************************************************************)
RECURSIVE getNestedValue(_, _)
getNestedValue(obj, path) ==
  IF path = <<>> THEN Undefined
  ELSE IF Head(path) \notin DOMAIN obj THEN Undefined
  ELSE IF Len(path) = 1 THEN obj[Head(path)]
  ELSE getNestedValue(obj[Head(path)], Tail(path))

RECURSIVE setNestedValue(_, _, _)
setNestedValue(obj, path, v) ==
  IF Len(path) = 1 THEN (Head(path) :> v) @@ obj
  ELSE (Head(path) :>
          setNestedValue(IF Head(path) \in DOMAIN obj THEN obj[Head(path)]
                         ELSE EmptyObject,
                         Tail(path), v)) @@ obj

\* formValues[fieldName]: a plain property read with the whole dotted name
\* as the key.  Form data is nested by segment, so only a name of one
\* segment is a key of it.
PropertyRead(obj, name) ==
  IF Len(name) = 1 /\ name[1] \in DOMAIN obj THEN obj[name[1]] ELSE Undefined

(***************************************************************************)
(* Rules (JSON Logic).  A rule node is [op, args, val, path]:               *)
(* op "lit" is the literal val, op "var" reads path from the values.       *)
(***************************************************************************)
NoRule == [op |-> "none", args |-> <<>>, val |-> Undefined, path |-> <<>>]
Lit(v) == [op |-> "lit", args |-> <<>>, val |-> v, path |-> <<>>]
Var(p) == [op |-> "var", args |-> <<>>, val |-> Undefined, path |-> p]
Op(o, as) == [op |-> o, args |-> as, val |-> Undefined, path |-> <<>>]

\* the patterns a configuration declares: none, one that accepts exactly
\* "aa", and one that is no regular expression
Patterns == {"", "^a{2}$", "("}

\* new RegExp(pattern) returns
IsValidRegExp(pattern) == pattern # "("

\* regex.test(s), s a run of the letter a
RegExpTest(pattern, s) ==
  CASE pattern = "^a{2}$" -> s = "aa"
    [] OTHER -> TRUE

\* String(v)
StringOf(v) == IF v[1] = "undefined" THEN "undefined" ELSE v[2]

\* the outcome of an evaluation that threw
Raised == <<"raised", "SyntaxError">>

\* regex_match that compiles the pattern outside a try block
RegexMatchUncaught(pattern, v) ==
  IF ~IsValidRegExp(pattern[2]) THEN Raised
  ELSE Bool(RegExpTest(pattern[2], StringOf(v)))

\* regex_match(pattern, value): the pattern tested on the value as a
\* string; a pattern that does not compile gives false
RegexMatch(pattern, v) ==
  IF ~IsValidRegExp(pattern[2]) THEN Bool(FALSE)
  ELSE Bool(RegExpTest(pattern[2], StringOf(v)))

RECURSIVE applyJsonLogic(_, _)
RECURSIVE LogicAnd(_, _)
RECURSIVE LogicOr(_, _)
\* and: the first falsy argument, else the last one
LogicAnd(as, data) ==
  IF as = <<>> THEN Undefined
  ELSE LET v == applyJsonLogic(Head(as), data)
       IN  IF Len(as) = 1 \/ ~Truthy(v) THEN v ELSE LogicAnd(Tail(as), data)
\* or: the first truthy argument, else the last one
LogicOr(as, data) ==
  IF as = <<>> THEN Undefined
  ELSE LET v == applyJsonLogic(Head(as), data)
       IN  IF Len(as) = 1 \/ Truthy(v) THEN v ELSE LogicOr(Tail(as), data)
applyJsonLogic(rule, data) ==
  CASE rule.op = "lit" -> rule.val
    [] rule.op = "var" -> getNestedValue(data, rule.path)
    [] rule.op = "===" /\ Len(rule.args) = 2 ->
         Bool(applyJsonLogic(rule.args[1], data) = applyJsonLogic(rule.args[2], data))
    [] rule.op = "!==" /\ Len(rule.args) = 2 ->
         Bool(applyJsonLogic(rule.args[1], data) # applyJsonLogic(rule.args[2], data))
    [] rule.op = "!" /\ Len(rule.args) = 1 ->
         Bool(~Truthy(applyJsonLogic(rule.args[1], data)))
    [] rule.op = "and" -> LogicAnd(rule.args, data)
    [] rule.op = "or" -> LogicOr(rule.args, data)
    [] rule.op = "if" /\ Len(rule.args) = 3 ->
         IF Truthy(applyJsonLogic(rule.args[1], data))
         THEN applyJsonLogic(rule.args[2], data)
         ELSE applyJsonLogic(rule.args[3], data)
    [] rule.op = "regex_match" /\ Len(rule.args) = 2 ->
         RegexMatch(applyJsonLogic(rule.args[1], data),
                    applyJsonLogic(rule.args[2], data))
    [] OTHER -> Undefined

\* a rule as a condition: its result taken by truthiness
evaluateCondition(rule, data) == Truthy(applyJsonLogic(rule, data))

(***************************************************************************)
(* Form elements.  Every element is a record of the same shape; the keys   *)
(* an element does not set hold the absent value of their kind.            *)
(***************************************************************************)
\* ValidationConfig; minLength / maxLength -1 and pattern / message "" stand
\* for a key that is not set
NoValidation ==
  [present |-> FALSE, required |-> FALSE, minLength |-> -1, maxLength |-> -1,
   pattern |-> "", message |-> "", condition |-> NoRule]
Required == [NoValidation EXCEPT !.present = TRUE, !.required = TRUE]

FieldElement(t, n) ==
  [type |-> t, name |-> n, defaultValue |-> Undefined, dependsOn |-> NoName,
   resetOnParentChange |-> Undefined, visible |-> NoRule,
   validation |-> NoValidation, columns |-> <<>>, children |-> <<>>,
   elements |-> <<>>]
ContainerElement(cols, kids, rule) ==
  [type |-> "container", name |-> NoName, defaultValue |-> Undefined,
   dependsOn |-> NoName, resetOnParentChange |-> Undefined, visible |-> rule,
   validation |-> NoValidation, columns |-> cols, children |-> kids,
   elements |-> <<>>]
ColumnElement(els, rule) ==
  [type |-> "column", name |-> NoName, defaultValue |-> Undefined,
   dependsOn |-> NoName, resetOnParentChange |-> Undefined, visible |-> rule,
   validation |-> NoValidation, columns |-> <<>>, children |-> <<>>,
   elements |-> els]

isFieldElement(e) == e.type \in {"text", "email", "boolean", "phone", "date", "custom"}
isContainerElement(e) == e.type = "container"
isColumnElement(e) == e.type = "column"

(***************************************************************************)
(* The configurations the form is built from.                              *)
(***************************************************************************)
\* country <- city (reset), country <- zip (resetOnParentChange: false);
\* zip is shown while city is empty and declares the condition "country
\* is set" for its validation
CascadeElements ==
  << [FieldElement("text", <<"country">>) EXCEPT !.validation = Required],
     [FieldElement("text", <<"city">>) EXCEPT
        !.dependsOn = <<"country">>, !.validation = Required],
     [FieldElement("text", <<"zip">>) EXCEPT
        !.dependsOn = <<"country">>, !.resetOnParentChange = Bool(FALSE),
        !.visible = Op("!", <<Var(<<"city">>)>>),
        !.validation = [Required EXCEPT !.condition = Var(<<"country">>)]] >>

\* a container shown while show is true, holding inner (own rule always
\* true); a section whose inner container's column is shown while inner is
\* non-empty, holding deep (no rule)
GateElements ==
  << FieldElement("boolean", <<"show">>),
     ContainerElement(
       << ColumnElement(
            << [FieldElement("text", <<"inner">>) EXCEPT
                  !.visible = Op("===", <<Lit(Num(1)), Lit(Num(1))>>),
                  !.validation = Required] >>,
            NoRule) >>,
       <<>>,
       Op("===", <<Var(<<"show">>), Lit(Bool(TRUE))>>)),
     ContainerElement(
       <<>>,
       << ContainerElement(
            << ColumnElement(<< FieldElement("text", <<"deep">>) >>,
                             Var(<<"inner">>)) >>,
            <<>>, NoRule) >>,
       NoRule) >>

\* a and b depend on each other; c depends on b; b declares a default
CycleElements ==
  << [FieldElement("text", <<"a">>) EXCEPT !.dependsOn = <<"b">>],
     [FieldElement("text", <<"b">>) EXCEPT
        !.dependsOn = <<"a">>, !.defaultValue = Str("a")],
     [FieldElement("text", <<"c">>) EXCEPT !.dependsOn = <<"b">>] >>

\* the parent is a dot path
NestedElements ==
  << FieldElement("text", <<"address", "country">>),
     [FieldElement("text", <<"address", "city">>) EXCEPT
        !.dependsOn = <<"address", "country">>],
     [FieldElement("boolean", <<"agree">>) EXCEPT
        !.dependsOn = <<"address", "country">>, !.validation = Required] >>

\* the configurations a form is constructed with, by name
Configs == {"cascade", "gate", "cycle", "nested"}

ConfigNamed(c) ==
  CASE c = "cascade" -> [elements |-> CascadeElements]
    [] c = "gate" -> [elements |-> GateElements]
    [] c = "cycle" -> [elements |-> CycleElements]
    [] c = "nested" -> [elements |-> NestedElements]

(***************************************************************************)
(* Utilities over the element tree.                                        *)
(***************************************************************************)
RECURSIVE flattenFields(_)
RECURSIVE FlattenColumns(_)
FlattenColumns(cols) ==
  IF cols = <<>> THEN <<>>
  ELSE flattenFields(Head(cols).elements) \o FlattenColumns(Tail(cols))
\* the field elements in document order, through columns and children
flattenFields(elements) ==
  IF elements = <<>> THEN <<>>
  ELSE LET e == Head(elements)
           here == IF isFieldElement(e) THEN <<e>>
                   ELSE IF isContainerElement(e)
                        THEN FlattenColumns(e.columns) \o flattenFields(e.children)
                   ELSE IF isColumnElement(e) THEN flattenFields(e.elements)
                   ELSE <<>>
       IN  here \o flattenFields(Tail(elements))

getFieldNames(elements) ==
  LET fs == flattenFields(elements) IN {fs[i].name : i \in 1..Len(fs)}

\* the first field of that name, or a record of type "none"
findFieldByName(elements, name) ==
  LET fs == flattenFields(elements)
      hits == {i \in 1..Len(fs) : fs[i].name = name}
  IN  IF hits = {} THEN FieldElement("none", NoName)
      ELSE fs[CHOOSE i \in hits : \A j \in hits : i <= j]

\* the declared default, else false for a boolean and "" for the others
getFieldDefault(field) ==
  IF field.defaultValue # Undefined THEN field.defaultValue
  ELSE IF field.type = "boolean" THEN Bool(FALSE)
  ELSE Str("")

RECURSIVE SetDefaults(_, _)
SetDefaults(fs, obj) ==
  IF fs = <<>> THEN obj
  ELSE SetDefaults(Tail(fs),
                   setNestedValue(obj, Head(fs).name, getFieldDefault(Head(fs))))

\* the form's default values: every field at its default, nested by path
\* (no initialData is passed)
mergeDefaults(config) == SetDefaults(flattenFields(config.elements), EmptyObject)

\* parent name -> the names of the fields that declare dependsOn = parent,
\* in document order
buildDependencyMap(elements) ==
  LET fs == flattenFields(elements)
      parents == {fs[i].dependsOn : i \in 1..Len(fs)} \ {NoName}
  IN  [p \in parents |->
         LET F[i \in 0..Len(fs)] ==
               IF i = 0 THEN <<>>
               ELSE IF fs[i].dependsOn = p THEN Append(F[i - 1], fs[i].name)
               ELSE F[i - 1]
         IN  F[Len(fs)]]

(***************************************************************************)
(* Visibility.                                                             *)
(***************************************************************************)
\* an element's own rule against the values; no rule is visible
OwnVisible(e, values) ==
  e.visible.op = "none" \/ evaluateCondition(e.visible, values)

RECURSIVE VisibilityEntries(_, _, _)
RECURSIVE ColumnEntries(_, _, _)
ColumnEntries(cols, values, parentVisible) ==
  IF cols = <<>> THEN <<>>
  ELSE VisibilityEntries(Head(cols).elements, values,
                         parentVisible /\ OwnVisible(Head(cols), values))
       \o ColumnEntries(Tail(cols), values, parentVisible)
\* <<name, visible>> of every field, top-down: a field is visible when
\* its own rule and the rule of every enclosing container and column hold
VisibilityEntries(elements, values, parentVisible) ==
  IF elements = <<>> THEN <<>>
  ELSE LET e == Head(elements)
           vis == parentVisible /\ OwnVisible(e, values)
           here == IF isFieldElement(e) THEN << <<e.name, vis>> >>
                   ELSE IF isContainerElement(e)
                        THEN ColumnEntries(e.columns, values, vis)
                             \o VisibilityEntries(e.children, values, vis)
                   ELSE IF isColumnElement(e)
                        THEN VisibilityEntries(e.elements, values, vis)
                   ELSE <<>>
       IN  here \o VisibilityEntries(Tail(elements), values, parentVisible)

\* a computation that looks at each field's own rule only
calculateVisibilityOwnRule(elements, values) ==
  LET fs == flattenFields(elements)
  IN  [n \in {fs[i].name : i \in 1..Len(fs)} |->
         OwnVisible(findFieldByName(elements, n), values)]

calculateVisibility(elements, values) ==
  LET es == VisibilityEntries(elements, values, TRUE)
  IN  [n \in {es[i][1] : i \in 1..Len(es)} |->
         LET last == CHOOSE i \in 1..Len(es) :
                       /\ es[i][1] = n
                       /\ \A j \in 1..Len(es) : es[j][1] = n => j <= i
         IN  es[last][2]]

\* the next visibility state: the new map (the previous object is kept
\* when no entry differs, which is the same map)
getUpdatedVisibility(prev, next) ==
  IF DOMAIN prev = DOMAIN next /\ \A n \in DOMAIN next : prev[n] = next[n]
  THEN prev ELSE next

(***************************************************************************)
(* Per-field schemas.  A schema is modelled by the issues (messages, in    *)
(* the order of the checks) it reports for a value.                        *)
(***************************************************************************)
\* "string" (text, phone, date), "email", "boolean" or "unknown"
buildBaseSchema(fieldType) ==
  CASE fieldType \in {"text", "phone", "date"} -> "string"
    [] fieldType = "email" -> "email"
    [] fieldType = "boolean" -> "boolean"
    [] OTHER -> "unknown"

\* no input string (a run of the letter a) holds an @
IsEmailAddress(s) == FALSE

\* the issues of the base schema alone; a value of the wrong type fails
\* the type check and no further check runs
BaseIssues(base, v) ==
  CASE base \in {"string", "email"} /\ v[1] # "string" -> <<"Invalid input">>
    [] base = "email" /\ ~IsEmailAddress(v[2]) -> <<"Invalid email address">>
    [] base = "boolean" /\ v[1] # "boolean" -> <<"Invalid input">>
    [] OTHER -> <<>>

\* new RegExp(pattern) outside a try block: the SyntaxError leaves the
\* synthesis
PatternRuleUncaught(validation, s) ==
  IF validation.pattern = "" THEN <<>>
  ELSE IF ~IsValidRegExp(validation.pattern) THEN <<"SyntaxError">>
  ELSE IF RegExpTest(validation.pattern, s) THEN <<>>
  ELSE <<IF validation.message # "" THEN validation.message ELSE "Invalid format">>

\* the pattern rule: a pattern that does not compile is warned about and
\* adds no check
PatternRule(validation, s) ==
  IF validation.pattern = "" THEN <<>>
  ELSE IF ~IsValidRegExp(validation.pattern) THEN <<>>
  ELSE IF RegExpTest(validation.pattern, s) THEN <<>>
  ELSE <<IF validation.message # "" THEN validation.message ELSE "Invalid format">>

\* the string checks with strict comparisons
applyStringValidationStrict(validation, v) ==
  (IF validation.required /\ Len(v[2]) < 1
   THEN <<"This field is required">> ELSE <<>>)
  \o (IF validation.minLength # -1 /\ Len(v[2]) <= validation.minLength
      THEN <<"Must be at least " \o ToString(validation.minLength)
             \o " characters">> ELSE <<>>)
  \o (IF validation.maxLength # -1 /\ Len(v[2]) >= validation.maxLength
      THEN <<"Must be no more than " \o ToString(validation.maxLength)
             \o " characters">> ELSE <<>>)
  \o PatternRule(validation, v[2])

\* the string checks with required folded into minLength (one min check,
\* the larger bound, the minLength message)
applyStringValidationOneMin(validation, v) ==
  (IF validation.required /\ validation.minLength = -1 /\ Len(v[2]) < 1
   THEN <<"This field is required">> ELSE <<>>)
  \o (IF validation.minLength # -1 /\ Len(v[2]) < validation.minLength
      THEN <<"Must be at least " \o ToString(validation.minLength)
             \o " characters">> ELSE <<>>)
  \o (IF validation.maxLength # -1 /\ Len(v[2]) > validation.maxLength
      THEN <<"Must be no more than " \o ToString(validation.maxLength)
             \o " characters">> ELSE <<>>)
  \o PatternRule(validation, v[2])

\* the issues of the checks added to a string schema, in the order added
applyStringValidation(validation, v) ==
  (IF validation.required /\ Len(v[2]) < 1
   THEN <<"This field is required">> ELSE <<>>)
  \o (IF validation.minLength # -1 /\ Len(v[2]) < validation.minLength
      THEN <<"Must be at least " \o ToString(validation.minLength)
             \o " characters">> ELSE <<>>)
  \o (IF validation.maxLength # -1 /\ Len(v[2]) > validation.maxLength
      THEN <<"Must be no more than " \o ToString(validation.maxLength)
             \o " characters">> ELSE <<>>)
  \o PatternRule(validation, v[2])

\* required read as "must be present": no check is added to a boolean
applyBooleanValidationPresence(validation, v) == <<>>

\* a required boolean must be true
applyBooleanValidation(validation, v) ==
  IF validation.required /\ v # Bool(TRUE)
  THEN <<"This field is required">> ELSE <<>>

applyValidationRules(validation, fieldType, v) ==
  IF fieldType \in {"text", "phone", "email", "date"}
  THEN applyStringValidation(validation, v)
  ELSE IF fieldType = "boolean" THEN applyBooleanValidation(validation, v)
  ELSE <<>>

\* the issues the field's schema reports for value v
buildFieldSchema(field, v) ==
  LET base == BaseIssues(buildBaseSchema(field.type), v)
  IN  IF base # <<>> /\ base[1] = "Invalid input" THEN base
      ELSE base \o (IF field.validation.present
                    THEN applyValidationRules(field.validation, field.type, v)
                    ELSE <<>>)

\* the errors of the schema generated from the configuration: for every
\* field whose value at its nested path has issues, the first issue
generateZodSchema(parsedConfig, values) ==
  LET fs == flattenFields(parsedConfig.elements)
      issues(i) == buildFieldSchema(fs[i], getNestedValue(values, fs[i].name))
      bad == {i \in 1..Len(fs) : issues(i) # <<>>}
  IN  [n \in {fs[i].name : i \in bad} |->
         issues(CHOOSE i \in bad : fs[i].name = n)[1]]

\* a schema / a resolver supplied by the caller: opaque to the engine.
\* The supplied schema rejects every empty string, the supplied resolver
\* every falsy value.
ExternalSchema(parsedConfig, values) ==
  LET fs == flattenFields(parsedConfig.elements)
      bad == {i \in 1..Len(fs) : getNestedValue(values, fs[i].name) = Str("")}
  IN  [n \in {fs[i].name : i \in bad} |-> "schema: empty"]
ExternalResolver(parsedConfig, values) ==
  LET fs == flattenFields(parsedConfig.elements)
      bad == {i \in 1..Len(fs) : ~Truthy(getNestedValue(values, fs[i].name))}
  IN  [n \in {fs[i].name : i \in bad} |-> "resolver: falsy"]

(***************************************************************************)
(* Nested schema shapes (nestedPaths).  A shape maps a path segment to a   *)
(* schema node: a leaf validator or an object level with a shape of its    *)
(* own.  Every node is a record of the same form.                          *)
(***************************************************************************)
\* the primitive validators assigned to leaves
Validators == {"string", "boolean"}

Leaf(validator) ==
  [kind |-> "leaf", validator |-> validator, shape |-> <<>>, open |-> FALSE]

\* z.object(shape) strips unknown keys, z.looseObject(shape) keeps them
ObjectSchema(shape, open) ==
  [kind |-> "object", validator |-> "", shape |-> shape, open |-> open]

\* what getNestedSchema returns when a segment is missing
NoSchema ==
  [kind |-> "undefined", validator |-> "", shape |-> <<>>, open |-> FALSE]

\* the outcome of installing into a shape: the shape, or the error thrown
Installed(shape) == [ok |-> TRUE, shape |-> shape, error |-> <<>>]
ConfigurationError(shape, path) == [ok |-> FALSE, shape |-> shape, error |-> path]

\* an installation that replaces the level it walks through
RECURSIVE WalkSchemaFresh(_, _, _)
WalkSchemaFresh(shape, path, validator) ==
  LET first == Head(path) IN
  IF Len(path) = 1
  THEN Installed((first :> Leaf(validator)) @@ shape)
  ELSE LET r == WalkSchemaFresh(<<>>, Tail(path), validator)
       IN  Installed((first :> ObjectSchema(r.shape, TRUE)) @@ shape)

\* an installation that creates closed object levels
RECURSIVE WalkSchemaClosed(_, _, _)
WalkSchemaClosed(shape, path, validator) ==
  LET first == Head(path) IN
  IF Len(path) = 1
  THEN Installed((first :> Leaf(validator)) @@ shape)
  ELSE IF first \in DOMAIN shape /\ shape[first].kind = "leaf"
  THEN ConfigurationError(shape, path)
  ELSE LET inner == IF first \in DOMAIN shape THEN shape[first].shape ELSE <<>>
           r == WalkSchemaClosed(inner, Tail(path), validator)
       IN  IF r.ok
           THEN Installed((first :> ObjectSchema(r.shape, FALSE)) @@ shape)
           ELSE ConfigurationError(shape, path)

\* walk or create an open object level for every segment but the last, then
\* assign the leaf at the last segment; a leaf met where the walk has to
\* descend is a configuration error
RECURSIVE WalkSchema(_, _, _)
WalkSchema(shape, path, validator) ==
  LET first == Head(path) IN
  IF Len(path) = 1
  THEN Installed((first :> Leaf(validator)) @@ shape)
  ELSE IF first \in DOMAIN shape /\ shape[first].kind = "leaf"
  THEN ConfigurationError(shape, path)
  ELSE LET inner == IF first \in DOMAIN shape THEN shape[first].shape ELSE <<>>
           r == WalkSchema(inner, Tail(path), validator)
       IN  IF r.ok
           THEN Installed((first :> ObjectSchema(r.shape, TRUE)) @@ shape)
           ELSE ConfigurationError(shape, path)

\* setNestedSchema(shape, path, schema); the error names the path installed
setNestedSchema(shape, path, validator) ==
  LET r == WalkSchema(shape, path, validator)
  IN  IF r.ok THEN r ELSE ConfigurationError(shape, path)

\* the same traversal, read-only
RECURSIVE getNestedSchema(_, _)
getNestedSchema(shape, path) ==
  LET first == Head(path) IN
  IF first \notin DOMAIN shape THEN NoSchema
  ELSE IF Len(path) = 1 THEN shape[first]
  ELSE IF shape[first].kind # "object" THEN NoSchema
  ELSE getNestedSchema(shape[first].shape, Tail(path))

\* schema.safeParse(data): a leaf accepts the values of its type; an object
\* parses the keys of its shape and keeps the unknown keys only when open
RECURSIVE safeParse(_, _)
safeParse(schema, data) ==
  IF schema.kind = "leaf"
  THEN [success |-> data[1] = schema.validator, data |-> data]
  ELSE LET known == DOMAIN schema.shape
           parts == [k \in known |->
                       IF k \in DOMAIN data
                       THEN safeParse(schema.shape[k], data[k])
                       ELSE [success |-> FALSE, data |-> Undefined]]
           kept == IF schema.open THEN DOMAIN data \ known ELSE {}
       IN  [success |-> \A k \in known : parts[k].success,
            data |-> [k \in known \union kept |->
                        IF k \in known THEN parts[k].data ELSE data[k]]]

(***************************************************************************)
(* The configuration tree as objects (validateCustomComponents).  The heap *)
(* is the sequence of the objects allocated so far; a reference is an      *)
(* index into it, and 0 stands for a property the object does not have.    *)
(* An array is an object of its own, holding the references of its items.  *)
(***************************************************************************)
NoRef == 0

\* const v = value; Body(v): the value is computed once
Bind(value, Body(_)) == CHOOSE out \in {Body(v) : v \in {value}} : TRUE

Obj(kind, component, elements, columns, children, items) ==
  [kind |-> kind, component |-> component, elements |-> elements,
   columns |-> columns, children |-> children, items |-> items]

ArrayObj(items) == Obj("array", "", NoRef, NoRef, NoRef, items)

\* what a call returns: the heap after it, and the reference returned or
\* the exception thrown
Returned(heap, ref) == [heap |-> heap, ref |-> ref, thrown |-> FALSE]
Thrown(heap) == [heap |-> heap, ref |-> NoRef, thrown |-> TRUE]

\* a new object
Alloc(heap, obj) == Returned(Append(heap, obj), Len(heap) + 1)

\* const result = container: the object itself, not a copy
AliasObject(heap, ref) == Returned(heap, ref)

\* { ...object }: a new object with the properties of the one spread
SpreadObject(heap, ref) == Alloc(heap, heap[ref])

isCustomElement(element) == element.kind = "custom"

\* a copy of the element when its component is registered, else the
\* configuration error
validateCustomElement(heap, element, registry) ==
  IF heap[element].component \in registry
  THEN SpreadObject(heap, element)
  ELSE Thrown(heap)

RECURSIVE validateElement(_, _, _)
RECURSIVE MapElements(_, _, _)
RECURSIVE MapColumns(_, _, _)
RECURSIVE validateColumn(_, _, _)

\* elements.map((element) => validateElement(element, ...)), item by item
MapElements(heap, items, registry) ==
  IF items = <<>> THEN [heap |-> heap, refs |-> <<>>, thrown |-> FALSE]
  ELSE Bind(validateElement(heap, Head(items), registry), LAMBDA first :
         IF first.thrown
         THEN [heap |-> first.heap, refs |-> <<>>, thrown |-> TRUE]
         ELSE Bind(MapElements(first.heap, Tail(items), registry), LAMBDA rest :
                [heap |-> rest.heap, refs |-> <<first.ref>> \o rest.refs,
                 thrown |-> rest.thrown]))

\* map returns a new array
validateElements(heap, elements, registry) ==
  Bind(MapElements(heap, heap[elements].items, registry), LAMBDA mapped :
    IF mapped.thrown THEN Thrown(mapped.heap)
    ELSE Alloc(mapped.heap, ArrayObj(mapped.refs)))

\* container.columns.map((column) => validateColumn(column, ...))
MapColumns(heap, items, registry) ==
  IF items = <<>> THEN [heap |-> heap, refs |-> <<>>, thrown |-> FALSE]
  ELSE Bind(validateColumn(heap, Head(items), registry), LAMBDA first :
         IF first.thrown
         THEN [heap |-> first.heap, refs |-> <<>>, thrown |-> TRUE]
         ELSE Bind(MapColumns(first.heap, Tail(items), registry), LAMBDA rest :
                [heap |-> rest.heap, refs |-> <<first.ref>> \o rest.refs,
                 thrown |-> rest.thrown]))

\* return { ...column, elements: validatedElements }
validateColumn(heap, column, registry) ==
  Bind(validateElements(heap, heap[column].elements, registry), LAMBDA validated :
    IF validated.thrown THEN validated
    ELSE Bind(SpreadObject(validated.heap, column), LAMBDA result :
           Returned([result.heap EXCEPT ![result.ref].elements = validated.ref],
                    result.ref)))

\* if (container.columns) result.columns = container.columns.map(...)
ValidateColumns(result, container, registry) ==
  IF result.heap[container].columns = NoRef THEN result
  ELSE Bind(MapColumns(result.heap,
                       result.heap[result.heap[container].columns].items,
                       registry), LAMBDA mapped :
         IF mapped.thrown THEN Thrown(mapped.heap)
         ELSE Bind(Alloc(mapped.heap, ArrayObj(mapped.refs)), LAMBDA array :
                Returned([array.heap EXCEPT ![result.ref].columns = array.ref],
                         result.ref)))

\* if (container.children) result.children = validateElements(...)
ValidateChildren(result, container, registry) ==
  IF result.thrown \/ result.heap[container].children = NoRef THEN result
  ELSE Bind(validateElements(result.heap, result.heap[container].children,
                             registry), LAMBDA validated :
         IF validated.thrown THEN validated
         ELSE Returned([validated.heap EXCEPT
                          ![result.ref].children = validated.ref],
                       result.ref))

\* const result = { ...container }; the columns; the children; return result
validateContainer(heap, container, registry) ==
  Bind(SpreadObject(heap, container), LAMBDA result :
    Bind(ValidateColumns(result, container, registry), LAMBDA columns :
      ValidateChildren(columns, container, registry)))

validateElement(heap, element, registry) ==
  IF isCustomElement(heap[element])
  THEN validateCustomElement(heap, element, registry)
  ELSE IF heap[element].kind = "container"
  THEN validateContainer(heap, element, registry)
  ELSE IF heap[element].kind = "column"
  THEN validateColumn(heap, element, registry)
  ELSE Returned(heap, element)

\* return { ...config, elements: validatedElements }
validateCustomComponents(heap, configuration, registry) ==
  Bind(validateElements(heap, heap[configuration].elements, registry),
       LAMBDA validated :
    IF validated.thrown THEN validated
    ELSE Bind(SpreadObject(validated.heap, configuration), LAMBDA result :
           Returned([result.heap EXCEPT ![result.ref].elements = validated.ref],
                    result.ref)))

\* the tree below a reference, without the identities of its objects
RECURSIVE Unfold(_, _)
Unfold(heap, ref) ==
  IF ref = NoRef THEN <<"absent">>
  ELSE LET o == heap[ref]
       IN  <<o.kind, o.component, Unfold(heap, o.elements),
             Unfold(heap, o.columns), Unfold(heap, o.children),
             [i \in 1..Len(o.items) |-> Unfold(heap, o.items[i])]>>

\* the objects of the tree below a reference
RECURSIVE Reachable(_, _)
Reachable(heap, ref) ==
  IF ref = NoRef THEN {}
  ELSE LET o == heap[ref]
       IN  {ref} \union Reachable(heap, o.elements)
                 \union Reachable(heap, o.columns)
                 \union Reachable(heap, o.children)
                 \union UNION {Reachable(heap, o.items[i]) : i \in 1..Len(o.items)}

(***************************************************************************)
(* The visibility-aware resolver.                                          *)
(***************************************************************************)
Modes == {"skip", "validate", "warn"}

\* errors: the schema's errors without those of invisible fields under
\* skip, all of them under validate and warn; warned: the invisible
\* fields a diagnostic is logged for under warn
createVisibilityAwareResolver(schemaErrors, vis, mode) ==
  LET invisible == {n \in DOMAIN schemaErrors : n \in DOMAIN vis /\ vis[n] = FALSE}
      kept == IF mode = "skip" THEN DOMAIN schemaErrors \ invisible
              ELSE DOMAIN schemaErrors
  IN  [errors |-> [n \in kept |-> schemaErrors[n]],
       warned |-> IF mode = "warn" THEN invisible ELSE {}]

(***************************************************************************)
(* The whole-form schema as a nested shape: generateZodSchema installs the *)
(* schema of every field at its dot path, and the object schema of the     *)
(* shape parses nested data.  The schema of a field is modelled by the     *)
(* field it was built from.                                                *)
(***************************************************************************)
\* schemaShape[field.name] = fieldSchema: the dotted name as one key
RECURSIVE InstallFlatKeys(_, _)
InstallFlatKeys(fields, r) ==
  IF fields = <<>> THEN r
  ELSE InstallFlatKeys(Tail(fields),
                       Installed((Join(Head(fields).name, ".") :> Leaf(Head(fields)))
                                 @@ r.shape))

\* the loop of generateZodSchema; an error thrown by setNestedSchema ends it
RECURSIVE InstallFields(_, _)
InstallFields(fields, r) ==
  IF fields = <<>> \/ ~r.ok THEN r
  ELSE InstallFields(Tail(fields),
                     setNestedSchema(r.shape, Head(fields).name, Head(fields)))

\* the shape generateZodSchema hands to z.object
SchemaShapeOf(elements) == InstallFields(flattenFields(elements), Installed(<<>>))

\* z.object(shape).safeParse(data), as the issues reported: <<path, message>>.
\* A leaf reports the first issue of the field's schema for the value at
\* its key (undefined when the key is missing); an object level that is
\* missing is one issue at the level, and nothing below it is parsed.
RECURSIVE safeParseFields(_, _, _, _)
safeParseFields(schema, present, data, at) ==
  IF schema.kind = "leaf"
  THEN IF buildFieldSchema(schema.validator, IF present THEN data ELSE Undefined) = <<>>
       THEN {}
       ELSE {<<at, buildFieldSchema(schema.validator,
                                    IF present THEN data ELSE Undefined)[1]>>}
  ELSE IF ~present THEN {<<at, "Invalid input">>}
  ELSE UNION {safeParseFields(schema.shape[k], k \in DOMAIN data,
                              IF k \in DOMAIN data THEN data[k] ELSE Undefined,
                              Append(at, k)) : k \in DOMAIN schema.shape}

(***************************************************************************)
(* ConfigurationError: the error of an invalid configuration and the       *)
(* formatting of its message.  An optional string argument is a string or  *)
(* undefined.                                                              *)
(***************************************************************************)
\* the parts pushed in the other order: the path, then the component
formatMessagePathFirst(baseMessage, path, component) ==
  LET parts ==
        (IF Truthy(path) THEN <<"at " \o path[2]>> ELSE <<>>)
        \o (IF Truthy(component) THEN <<"Component \"" \o component[2] \o "\"">>
            ELSE <<>>)
  IN  IF Len(parts) > 0 THEN Join(parts, " ") \o ": " \o baseMessage
      ELSE baseMessage

\* ConfigurationError.formatMessage: if (component), if (path) test the
\* truthiness of the argument, so an empty string pushes no part
formatMessage(baseMessage, path, component) ==
  LET parts ==
        (IF Truthy(component) THEN <<"Component \"" \o component[2] \o "\"">>
         ELSE <<>>)
        \o (IF Truthy(path) THEN <<"at " \o path[2]>> ELSE <<>>)
  IN  IF Len(parts) > 0 THEN Join(parts, " ") \o ": " \o baseMessage
      ELSE baseMessage

\* new ConfigurationError(message, path, component)
NewConfigurationError(message, path, component) ==
  [name |-> "ConfigurationError", message |-> message, path |-> path,
   component |-> component]

(***************************************************************************)
(* The DynamicForm component.                                              *)
(***************************************************************************)
VARIABLES
  config,             \* the config prop: the configuration it holds
  configRef,          \* the config prop: which object it is
  memo,               \* the useMemo cells of parsedConfig, schema, dependencyMap
  props,              \* resolver / schema / invisibleFieldValidation props
  formValues,         \* the form state's values (react-hook-form)
  previousValuesRef,  \* previousValuesRef.current, by field name
  visibility,         \* the committed visibility state
  committedFrom,      \* history: the values the committed state was computed from
  pendingVisibility,  \* setVisibility updates queued until the next render
  stack,              \* open invocations of the watch callback, innermost last
  log,                \* history: what the current change did, in order
  submitted,          \* outcome of the last submission: none, onSubmit, onError
  probe,              \* the last safeParse of one field's schema
  schemaShape,        \* the shape a schema synthesis is filling, or its error
  installed,          \* history: the paths installed so far, in order
  parsed,             \* the safeParse of sample data by the synthesised schema
  heap,               \* the objects of a configuration tree and of its copy
  call,               \* the call of validateCustomComponents on the tree
  made,               \* a configuration error message formatted and an error built
  submission,         \* a schema generated from a configuration, and data parsed
  evaluation,         \* a rule evaluated against values
  mount               \* a form mounted from a configuration tree and a registry

\* the state of a schema synthesis run on its own
nestVars == <<schemaShape, installed, parsed>>

\* the state of a validation of custom components run on its own
treeVars == <<heap, call>>

\* the state of the small functions exercised on their own
unitVars == <<made, submission, evaluation, mount>>

\* the state of the schema functions exercised on their own
benchVars == <<probe, nestVars, treeVars, unitVars>>

\* the state of the mounted form
formVars == <<config, configRef, memo, props, formValues, previousValuesRef, visibility,
              committedFrom, pendingVisibility, stack, log, submitted>>

vars == <<formVars, benchVars>>

parsedConfig == ConfigNamed(config)
defaultValues == mergeDefaults(parsedConfig)
dependencyMap == buildDependencyMap(parsedConfig.elements)
FieldNames == getFieldNames(parsedConfig.elements)

\* a form that validates invisible fields unless told otherwise
DefaultValidatesInvisible == "validate"

\* the invisibleFieldValidation prop when the caller passes none
DefaultInvisibleFieldValidation == "skip"
invisibleFieldValidation ==
  IF props.invisibleFieldValidation = "unset"
  THEN DefaultInvisibleFieldValidation ELSE props.invisibleFieldValidation

\* generated only when neither a resolver nor a schema is supplied
internalZodSchema ==
  IF props.resolver \/ props.schema THEN "null" ELSE "generated"

\* a resolver that closes over the visibility of the first render
getVisibilityOfFirstRender ==
  calculateVisibility(parsedConfig.elements, defaultValues)

\* visibilityRef.current: assigned the visibility state on every render
getVisibility == visibility

\* a selection that prefers the supplied schema to the supplied resolver
FormResolverSchemaFirst(values) ==
  IF props.schema
  THEN createVisibilityAwareResolver(ExternalSchema(parsedConfig, values),
                                     getVisibility, invisibleFieldValidation)
  ELSE IF props.resolver
  THEN [errors |-> ExternalResolver(parsedConfig, values), warned |-> {}]
  ELSE IF internalZodSchema # "null"
  THEN createVisibilityAwareResolver(generateZodSchema(parsedConfig, values),
                                     getVisibility, invisibleFieldValidation)
  ELSE [errors |-> <<>>, warned |-> {}]

\* the errors the form's resolver reports for the values; the supplied
\* resolver as it is, else the supplied schema, else the generated one,
\* behind the visibility-aware resolver
FormResolver(values) ==
  IF props.resolver
  THEN [errors |-> ExternalResolver(parsedConfig, values), warned |-> {}]
  ELSE IF props.schema
  THEN createVisibilityAwareResolver(ExternalSchema(parsedConfig, values),
                                     getVisibility, invisibleFieldValidation)
  ELSE IF internalZodSchema # "null"
  THEN createVisibilityAwareResolver(generateZodSchema(parsedConfig, values),
                                     getVisibility, invisibleFieldValidation)
  ELSE [errors |-> <<>>, warned |-> {}]

(***************************************************************************)
(* Rendering.                                                              *)
(***************************************************************************)
\* the renderer without its visibility check
IsVisibleAlways(name) == TRUE

\* FieldRenderer: a field is hidden exactly when its entry is false
IsVisible(name) == ~(name \in DOMAIN visibility /\ visibility[name] = FALSE)

RECURSIVE RenderedFields(_)
RECURSIVE RenderedColumns(_)
RenderedColumns(cols) ==
  IF cols = <<>> THEN {}
  ELSE RenderedFields(Head(cols).elements) \cup RenderedColumns(Tail(cols))
\* the fields the renderers put on screen: a container renders its
\* children, else its columns; a column outside a container renders nothing
RenderedFields(elements) ==
  IF elements = <<>> THEN {}
  ELSE LET e == Head(elements)
           here == IF isFieldElement(e)
                   THEN (IF IsVisible(e.name) THEN {e.name} ELSE {})
                   ELSE IF isContainerElement(e)
                        THEN (IF e.children # <<>> THEN RenderedFields(e.children)
                              ELSE RenderedColumns(e.columns))
                   ELSE {}
       IN  here \cup RenderedFields(Tail(elements))

(***************************************************************************)
(* Initial state: the form as constructed and rendered once.               *)
(***************************************************************************)
\* no schema has parsed anything yet
NoProbe == [field |-> FieldElement("none", NoName), value |-> Undefined,
            other |-> Undefined, parsed |-> FALSE, issues |-> <<>>,
            errors |-> <<>>]

\* no sample data has been parsed yet
NoParse == [done |-> FALSE, data |-> <<>>,
            result |-> [success |-> FALSE, data |-> <<>>]]

\* const schemaShape = {} and nothing installed
NoSynthesis ==
  /\ schemaShape = Installed(<<>>)
  /\ installed = <<>>
  /\ parsed = NoParse

\* validateCustomComponents has not been given a configuration
NoCall == [config |-> NoRef, registry |-> {}, before |-> <<>>, done |-> FALSE,
           result |-> NoRef, thrown |-> FALSE]

NoTree ==
  /\ heap = <<>>
  /\ call = NoCall

\* no message has been formatted and no error constructed
NoError == [name |-> "", message |-> "", path |-> Undefined,
            component |-> Undefined]

NoMade == [baseMessage |-> "", path |-> Undefined, component |-> Undefined,
           formatted |-> FALSE, message |-> "", constructed |-> FALSE,
           error |-> NoError]

\* no schema has been generated from a configuration of its own
NoSubmission == [elements |-> <<>>, data |-> EmptyObject, generated |-> FALSE,
                 schema |-> Installed(<<>>), parsed |-> FALSE, issues |-> {}]

\* no rule has been evaluated on its own
NoEvaluation == [rule |-> NoRule, data |-> EmptyObject, done |-> FALSE,
                 result |-> Undefined, visibility |-> <<>>]

\* no form has been mounted from a configuration tree
NoMount == [done |-> FALSE, thrown |-> FALSE, error |-> "", rendered |-> <<>>,
            warned |-> <<>>]

NoUnit ==
  /\ made = NoMade
  /\ submission = NoSubmission
  /\ evaluation = NoEvaluation
  /\ mount = NoMount

\* a useMemo that computes on every render
UseMemoAlways(cell, deps) ==
  [deps |-> deps, version |-> cell.version + 1]

\* useMemo(factory, deps): the cell keeps its value while the dependencies
\* are the ones of the last computation; version counts the computations
UseMemo(cell, deps) ==
  IF cell.deps = deps THEN cell
  ELSE [deps |-> deps, version |-> cell.version + 1]

\* a cell before the first render
NoMemo == [deps |-> <<>>, version |-> 0]

\* the three useMemo calls of one render, in the order of the code
RenderMemos(cells, ref, p) ==
  LET parsedCell == UseMemo(cells.parsedConfig, <<ref>>)
  IN  [parsedConfig |-> parsedCell,
       internalZodSchema |->
         UseMemo(cells.internalZodSchema,
                 <<parsedCell.version, p.resolver, p.schema>>),
       dependencyMap |-> UseMemo(cells.dependencyMap, <<parsedCell.version>>)]

Props ==
  [invisibleFieldValidation : {"unset"} \cup Modes,
   resolver : BOOLEAN, schema : BOOLEAN]

Init ==
  /\ config \in Configs
  /\ configRef = 1
  /\ props \in Props
  /\ memo = RenderMemos([parsedConfig |-> NoMemo, internalZodSchema |-> NoMemo,
                         dependencyMap |-> NoMemo], configRef, props)
  /\ formValues = defaultValues
  /\ previousValuesRef = [n \in FieldNames |-> Undefined]
  /\ visibility = calculateVisibility(parsedConfig.elements, defaultValues)
  /\ committedFrom = defaultValues
  /\ pendingVisibility = <<>>
  /\ stack = <<>>
  /\ log = <<>>
  /\ submitted = "none"
  /\ probe = NoProbe
  /\ NoSynthesis
  /\ NoTree
  /\ NoUnit

(***************************************************************************)
(* The watch subscription.  react-hook-form calls the callback at once,    *)
(* inside the call that changed a value, so a setValue issued by the       *)
(* callback re-enters it: stack holds the open invocations.                *)
(***************************************************************************)
Idle == stack = <<>> /\ pendingVisibility = <<>>
Top == stack[Len(stack)]

Entry(kind, frame, name, before, after, data, vis) ==
  [kind |-> kind, frame |-> frame, name |-> name, before |-> before,
   after |-> after, data |-> data, vis |-> vis]

Frame(id, name, values) ==
  [id |-> id, name |-> name, values |-> values, pc |-> 1, phase |-> "check",
   deps |-> <<>>]

NextFrameId == 1 + Cardinality({i \in 1..Len(log) : log[i].kind = "event"})

\* the callback with the resets issued before the visibility update
WatchOrderResetsFirst == <<"dependencies", "visibility", "onChange">>

\* the statements of the callback, in their order; an event without a
\* field name returns after the visibility update
WatchOrder == <<"visibility", "dependencies", "onChange">>

\* a callback that runs all its statements whether or not a name came
AdvanceToEnd ==
  IF Top.pc = Len(WatchOrder)
  THEN SubSeq(stack, 1, Len(stack) - 1)
  ELSE [stack EXCEPT ![Len(stack)] =
          [Top EXCEPT !.pc = Top.pc + 1, !.phase = "check", !.deps = <<>>]]

\* the stack once the innermost invocation has finished its current statement
Advance ==
  IF Top.pc = Len(WatchOrder)
     \/ (WatchOrder[Top.pc] = "visibility" /\ Top.name = NoName)
  THEN SubSeq(stack, 1, Len(stack) - 1)
  ELSE [stack EXCEPT ![Len(stack)] =
          [Top EXCEPT !.pc = Top.pc + 1, !.phase = "check", !.deps = <<>>]]

\* the values a field can be given
InputValues(field) ==
  IF field.type = "boolean" THEN {Bool(TRUE), Bool(FALSE)}
  ELSE {Str(s) : s \in Strings}

\* a value of the form state changes and the subscription is notified
\* with the field's name
ChangeValue(name, v) ==
  /\ formValues' = setNestedValue(formValues, name, v)
  /\ stack' = <<Frame(1, name, formValues')>>
  /\ log' = <<Entry("event", 1, name, getNestedValue(formValues, name), v,
                    formValues', <<>>)>>
  /\ submitted' = "none"
  /\ UNCHANGED <<benchVars, configRef, memo, config, props, previousValuesRef, visibility, committedFrom,
                 pendingVisibility>>

\* the user edits a field that is on screen
FieldOnChange ==
  /\ Idle
  /\ \E name \in RenderedFields(parsedConfig.elements) :
       \E v \in InputValues(findFieldByName(parsedConfig.elements, name)) :
         ChangeValue(name, v)

\* ref.setValue(name, value)
RefSetValue ==
  /\ Idle
  /\ \E name \in FieldNames :
       \E v \in InputValues(findFieldByName(parsedConfig.elements, name)) :
         ChangeValue(name, v)

\* the reset button or ref.reset(): the form goes back to its default
\* values and the subscription is notified without a field name
HandleReset ==
  /\ Idle
  /\ formValues' = defaultValues
  /\ stack' = <<Frame(1, NoName, formValues')>>
  /\ log' = <<Entry("event", 1, NoName, Undefined, Undefined, formValues', <<>>)>>
  /\ submitted' = "none"
  /\ UNCHANGED <<benchVars, configRef, memo, config, props, previousValuesRef, visibility, committedFrom,
                 pendingVisibility>>

\* the callback returning on a missing field name before it recomputes:
\* the latest visibility is kept
WatchNewVisibilityNamedOnly(frame) ==
  IF frame.name # NoName
  THEN calculateVisibility(parsedConfig.elements, frame.values)
  ELSE IF pendingVisibility = <<>> THEN visibility
  ELSE pendingVisibility[Len(pendingVisibility)].vis

\* newVisibility of one invocation
WatchNewVisibility(frame) == calculateVisibility(parsedConfig.elements, frame.values)

\* calculateVisibility and setVisibility(prev => getUpdatedVisibility(prev, new))
WatchVisibility ==
  /\ stack # <<>>
  /\ WatchOrder[Top.pc] = "visibility"
  /\ LET new == WatchNewVisibility(Top)
     IN  /\ pendingVisibility' =
              Append(pendingVisibility, [vis |-> new, from |-> Top.values])
         /\ log' = Append(log, Entry("visibility", Top.id, Top.name, Undefined,
                                     Undefined, Top.values, new))
  /\ stack' = Advance
  /\ UNCHANGED <<benchVars, configRef, memo, config, props, formValues, previousValuesRef, visibility,
                 committedFrom, submitted>>

\* currentValue === previousValue
SameAsPrevious(frame) ==
  PropertyRead(frame.values, frame.name) = previousValuesRef[frame.name]

\* handleDependencyReset without the assignment to previousValuesRef
RememberNothing(frame) == previousValuesRef

\* previousValuesRef.current[fieldName] = currentValue
RememberValue(frame) ==
  [previousValuesRef EXCEPT ![frame.name] = PropertyRead(frame.values, frame.name)]

\* handleDependencyReset up to its loop: nothing to do without dependents
\* or when the value read is the one remembered
HandleDependencyReset ==
  /\ stack # <<>>
  /\ WatchOrder[Top.pc] = "dependencies"
  /\ Top.phase = "check"
  /\ IF Top.name \notin DOMAIN dependencyMap \/ SameAsPrevious(Top)
     THEN /\ stack' = Advance
          /\ UNCHANGED previousValuesRef
     ELSE /\ previousValuesRef' = RememberValue(Top)
          /\ stack' = [stack EXCEPT ![Len(stack)] =
                         [Top EXCEPT !.phase = "loop",
                                     !.deps = dependencyMap[Top.name]]]
  /\ UNCHANGED <<benchVars, configRef, memo, config, props, formValues, visibility, committedFrom,
                 pendingVisibility, log, submitted>>

\* the loop without its resetOnParentChange test
ShouldResetAlways(field) == field.type # "none"

\* field && field.resetOnParentChange !== false
ShouldReset(field) ==
  field.type # "none" /\ field.resetOnParentChange # Bool(FALSE)

\* one turn of the loop over the dependents: form.setValue(dep, default)
\* changes the form state and calls the subscription for dep at once
ResetDependents ==
  /\ stack # <<>>
  /\ WatchOrder[Top.pc] = "dependencies"
  /\ Top.phase = "loop"
  /\ IF Top.deps = <<>>
     THEN /\ stack' = Advance
          /\ UNCHANGED <<formValues, log>>
     ELSE LET dep == Head(Top.deps)
              field == findFieldByName(parsedConfig.elements, dep)
              rest == [stack EXCEPT ![Len(stack)] =
                         [Top EXCEPT !.deps = Tail(Top.deps)]]
          IN  IF ShouldReset(field)
              THEN /\ Len(stack) < MaxDepth
                   /\ formValues' =
                        setNestedValue(formValues, dep, getFieldDefault(field))
                   /\ stack' = Append(rest, Frame(NextFrameId, dep, formValues'))
                   /\ log' = log \o
                        << Entry("setValue", Top.id, dep,
                                 getNestedValue(formValues, dep),
                                 getFieldDefault(field), formValues, <<>>),
                           Entry("event", NextFrameId, dep,
                                 getNestedValue(formValues, dep),
                                 getFieldDefault(field), formValues', <<>>) >>
              ELSE /\ stack' = rest
                   /\ UNCHANGED <<formValues, log>>
  /\ UNCHANGED <<benchVars, configRef, memo, config, props, previousValuesRef, visibility, committedFrom,
                 pendingVisibility, submitted>>

\* onChangeRef.current?.(values, name)
NotifyOnChange ==
  /\ stack # <<>>
  /\ WatchOrder[Top.pc] = "onChange"
  /\ log' = Append(log, Entry("onChange", Top.id, Top.name, Undefined,
                              Undefined, Top.values, <<>>))
  /\ stack' = Advance
  /\ UNCHANGED <<benchVars, configRef, memo, config, props, formValues, previousValuesRef, visibility,
                 committedFrom, pendingVisibility, submitted>>

RECURSIVE ApplyUpdates(_, _)
ApplyUpdates(state, updates) ==
  IF updates = <<>> THEN state
  ELSE ApplyUpdates(getUpdatedVisibility(state, Head(updates).vis), Tail(updates))

\* the change has been handled: the queued visibility updates are applied
\* in order and the form renders
Render ==
  /\ stack = <<>>
  /\ pendingVisibility # <<>>
  /\ visibility' = ApplyUpdates(visibility, pendingVisibility)
  /\ committedFrom' = pendingVisibility[Len(pendingVisibility)].from
  /\ pendingVisibility' = <<>>
  /\ log' = <<>>
  /\ memo' = RenderMemos(memo, configRef, props)
  /\ UNCHANGED <<benchVars, configRef, config, props, formValues, previousValuesRef, stack, submitted>>

\* handleSubmit: onSubmit when the resolver reports no error, else onError
HandleSubmit ==
  /\ Idle
  /\ submitted' = IF DOMAIN FormResolver(formValues).errors = {}
                  THEN "onSubmit" ELSE "onError"
  /\ UNCHANGED <<benchVars, configRef, memo, config, props, formValues, previousValuesRef, visibility,
                 committedFrom, pendingVisibility, stack, log>>

Next ==
  \/ FieldOnChange
  \/ RefSetValue
  \/ HandleReset
  \/ WatchVisibility
  \/ HandleDependencyReset
  \/ ResetDependents
  \/ NotifyOnChange
  \/ Render
  \/ HandleSubmit

Spec == Init /\ [][Next]_vars

\* the form constructed with no validation props: the props take no part
\* in the handling of an event
FairInit ==
  /\ Init
  /\ props = [invisibleFieldValidation |-> "unset", resolver |-> FALSE,
              schema |-> FALSE]

\* the callback is synchronous code: once called it runs on to its end, and
\* the render that React scheduled follows
FairSpec ==
  /\ FairInit /\ [][Next]_vars
  /\ WF_vars(WatchVisibility \/ HandleDependencyReset \/ ResetDependents
             \/ NotifyOnChange \/ Render)

(***************************************************************************)
(* The form under a parent that renders it again with a new configuration  *)
(* object.  The object holds the configuration the form was built from, so *)
(* the fields and the form state stay the ones of the mounted form.        *)
(***************************************************************************)
\* the parent renders the form with another config object
ReplaceConfig ==
  /\ Idle
  /\ configRef < MaxConfigs
  /\ configRef' = configRef + 1
  /\ memo' = RenderMemos(memo, configRef', props)
  /\ UNCHANGED <<benchVars, config, props, formValues, previousValuesRef,
                 visibility, committedFrom, pendingVisibility, stack, log,
                 submitted>>

MemoNext == Next \/ ReplaceConfig

MemoSpec == FairInit /\ [][MemoNext]_vars

(***************************************************************************)
(* The form under a consumer that validates through the ref: ref.trigger() *)
(* is called from the onChange handler, or after ref.setValue has          *)
(* returned, or while the form is at rest.  The resolver validates the     *)
(* form's values and reads the visibility through getVisibility.           *)
(***************************************************************************)
\* ref.trigger(): at most once per event
RefTrigger ==
  /\ \A i \in 1..Len(log) : log[i].kind # "trigger"
  /\ stack = <<>> \/ (log # <<>> /\ log[Len(log)].kind = "onChange")
  /\ log' = Append(log, Entry("trigger", 0, NoName, Undefined, Undefined,
                              formValues, getVisibility))
  /\ UNCHANGED <<benchVars, configRef, memo, config, props, formValues,
                 previousValuesRef, visibility, committedFrom,
                 pendingVisibility, stack, submitted>>

TriggerNext == Next \/ RefTrigger

TriggerSpec == FairInit /\ [][TriggerNext]_vars

(***************************************************************************)
(* The schema of one field, exercised on its own: a field is drawn with    *)
(* its validation, its schema is generated next to that of a required      *)
(* text field, and a value is parsed.                                      *)
(***************************************************************************)
ProbeValidations ==
  {NoValidation} \cup
  [present : {TRUE}, required : BOOLEAN, minLength : {-1} \cup 0..MaxRule,
   maxLength : {-1} \cup 0..MaxRule, pattern : Patterns, message : {""},
   condition : {NoRule}]

ProbeFields ==
  {[FieldElement(t, <<"probe">>) EXCEPT !.validation = v] :
     t \in {"text", "phone", "date", "email", "boolean", "custom"},
     v \in ProbeValidations}

ProbeValues ==
  {Str(Repeat(n)) : n \in 0..MaxChars}
  \cup {Bool(TRUE), Bool(FALSE), Undefined, Num(1)}

\* the field next to the probed one
OtherField == [FieldElement("text", <<"other">>) EXCEPT !.validation = Required]

\* a field and the values to parse, nothing parsed yet
ProbeInputs ==
  {[field |-> f, value |-> v, other |-> w, parsed |-> FALSE, issues |-> <<>>,
    errors |-> <<>>] :
     f \in ProbeFields, v \in ProbeValues, w \in {Str(""), Str("a")}}

\* schema = generateZodSchema({elements: [field, other]});
\* schema.safeParse({probe: v, other: w})
SafeParseField ==
  /\ ~probe.parsed
  /\ probe.field.type # "none"
  /\ probe' = [probe EXCEPT
                 !.parsed = TRUE,
                 !.issues = buildFieldSchema(probe.field, probe.value),
                 !.errors = generateZodSchema(
                              [elements |-> <<probe.field, OtherField>>],
                              ("probe" :> probe.value) @@ ("other" :> probe.other))]
  /\ UNCHANGED <<formVars, nestVars, treeVars, unitVars>>

\* the form plays no part: it is the cascade form as constructed
FieldInit ==
  /\ config = "cascade"
  /\ configRef = 1
  /\ props = [invisibleFieldValidation |-> "unset", resolver |-> FALSE,
              schema |-> FALSE]
  /\ memo = RenderMemos([parsedConfig |-> NoMemo, internalZodSchema |-> NoMemo,
                         dependencyMap |-> NoMemo], configRef, props)
  /\ formValues = defaultValues
  /\ previousValuesRef = [n \in FieldNames |-> Undefined]
  /\ visibility = calculateVisibility(parsedConfig.elements, defaultValues)
  /\ committedFrom = defaultValues
  /\ pendingVisibility = <<>>
  /\ stack = <<>>
  /\ log = <<>>
  /\ submitted = "none"
  /\ probe \in ProbeInputs
  /\ NoSynthesis
  /\ NoTree
  /\ NoUnit

FieldSpec == FieldInit /\ [][SafeParseField]_vars

(***************************************************************************)
(* A schema synthesis, exercised on its own: generateZodSchema installs    *)
(* the schema of one field after the other into an empty shape, and the    *)
(* schema made of the shape parses sample data.                            *)
(***************************************************************************)
\* the segments of the field names
Segments == {"a", "b"}

\* the dot paths of at most MaxSegments segments
NestPaths == UNION {[1..n -> Segments] : n \in 1..MaxSegments}

\* a key of the data that no field describes
ExtraKey == "extra"

\* a value the validator accepts
SampleValue(validator) ==
  IF validator = "boolean" THEN Bool(TRUE) ELSE Str("a")

\* data the shape accepts, with an unknown key at every level when asked to
RECURSIVE SampleData(_, _)
SampleData(shape, extra) ==
  [k \in DOMAIN shape \union (IF extra THEN {ExtraKey} ELSE {}) |->
     IF k \notin DOMAIN shape THEN Str("kept")
     ELSE IF shape[k].kind = "leaf" THEN SampleValue(shape[k].validator)
     ELSE SampleData(shape[k].shape, extra)]

\* p is path q or a path above it
IsPrefix(p, q) == Len(p) <= Len(q) /\ SubSeq(q, 1, Len(p)) = p

\* one turn of the loop: setNestedSchema(schemaShape, field.name, fieldSchema);
\* an error thrown ends the synthesis
InstallSchema ==
  /\ schemaShape.ok
  /\ ~parsed.done
  /\ Len(installed) < MaxPaths
  /\ \E path \in NestPaths, validator \in Validators :
       /\ schemaShape' = setNestedSchema(schemaShape.shape, path, validator)
       /\ installed' = Append(installed,
                              [path |-> path, validator |-> validator])
  /\ UNCHANGED <<formVars, probe, parsed, treeVars, unitVars>>

\* return z.object(schemaShape), and the schema parses the sample data
ParseData ==
  /\ schemaShape.ok
  /\ installed # <<>>
  /\ ~parsed.done
  /\ \E extra \in BOOLEAN :
       LET data == SampleData(schemaShape.shape, extra)
       IN  parsed' = [done |-> TRUE, data |-> data,
                      result |-> safeParse(ObjectSchema(schemaShape.shape, FALSE),
                                           data)]
  /\ UNCHANGED <<formVars, probe, schemaShape, installed, treeVars, unitVars>>

NestInit ==
  /\ config = "cascade"
  /\ configRef = 1
  /\ props = [invisibleFieldValidation |-> "unset", resolver |-> FALSE,
              schema |-> FALSE]
  /\ memo = RenderMemos([parsedConfig |-> NoMemo, internalZodSchema |-> NoMemo,
                         dependencyMap |-> NoMemo], configRef, props)
  /\ formValues = defaultValues
  /\ previousValuesRef = [n \in FieldNames |-> Undefined]
  /\ visibility = calculateVisibility(parsedConfig.elements, defaultValues)
  /\ committedFrom = defaultValues
  /\ pendingVisibility = <<>>
  /\ stack = <<>>
  /\ log = <<>>
  /\ submitted = "none"
  /\ probe = NoProbe
  /\ NoSynthesis
  /\ NoTree
  /\ NoUnit

NestNext == InstallSchema \/ ParseData

NestSpec == NestInit /\ [][NestNext]_vars

(***************************************************************************)
(* The validation of custom components, exercised on its own: a            *)
(* configuration tree is drawn, allocated, and validated once against a    *)
(* registry.                                                               *)
(***************************************************************************)
\* the elements a tree is made of: a text field or a custom element, bare
\* or inside a column, a container of columns, a section, or a container
\* with both columns and children
ElementShapes ==
  [outer : {"none", "column", "columns", "section", "both"},
   inner : {"text", "custom"}]

Trees == UNION {[1..n -> ElementShapes] : n \in 1..MaxElements}

\* the registries: with and without the component the custom elements name
Registries == {{}, {"widget"}}

AllocElement(h, type) ==
  Alloc(h, Obj(type, IF type = "custom" THEN "widget" ELSE "",
               NoRef, NoRef, NoRef, <<>>))

\* [element]
AllocArrayOf(e) == Alloc(e.heap, ArrayObj(<<e.ref>>))

AllocColumn(h, inner) ==
  Bind(AllocArrayOf(AllocElement(h, inner)), LAMBDA a :
    Alloc(a.heap, Obj("column", "", a.ref, NoRef, NoRef, <<>>)))

AllocShape(h, shape) ==
  CASE shape.outer = "none" -> AllocElement(h, shape.inner)
    [] shape.outer = "column" -> AllocColumn(h, shape.inner)
    [] shape.outer = "columns" ->
         Bind(AllocArrayOf(AllocColumn(h, shape.inner)), LAMBDA a :
           Alloc(a.heap, Obj("container", "", NoRef, a.ref, NoRef, <<>>)))
    [] shape.outer = "section" ->
         Bind(AllocArrayOf(AllocElement(h, shape.inner)), LAMBDA a :
           Alloc(a.heap, Obj("container", "", NoRef, NoRef, a.ref, <<>>)))
    [] shape.outer = "both" ->
         Bind(AllocArrayOf(AllocColumn(h, shape.inner)), LAMBDA a :
           Bind(AllocArrayOf(AllocElement(a.heap, "text")), LAMBDA b :
             Alloc(b.heap, Obj("container", "", NoRef, a.ref, b.ref, <<>>))))

RECURSIVE AllocShapes(_, _)
AllocShapes(h, shapes) ==
  IF shapes = <<>> THEN [heap |-> h, refs |-> <<>>]
  ELSE Bind(AllocShape(h, Head(shapes)), LAMBDA first :
         Bind(AllocShapes(first.heap, Tail(shapes)), LAMBDA rest :
           [heap |-> rest.heap, refs |-> <<first.ref>> \o rest.refs]))

\* the caller's configuration object
BuildConfig(tree) ==
  Bind(AllocShapes(<<>>, tree), LAMBDA es :
    Bind(Alloc(es.heap, ArrayObj(es.refs)), LAMBDA a :
      Alloc(a.heap, Obj("config", "", a.ref, NoRef, NoRef, <<>>))))

\* validated = validateCustomComponents(config, registry)
ValidateCustomComponents ==
  /\ call.config # NoRef
  /\ ~call.done
  /\ \E r \in {validateCustomComponents(heap, call.config, call.registry)} :
       /\ heap' = r.heap
       /\ call' = [call EXCEPT !.done = TRUE, !.result = r.ref,
                               !.thrown = r.thrown]
  /\ UNCHANGED <<formVars, probe, nestVars, unitVars>>

TreeInit ==
  /\ config = "cascade"
  /\ configRef = 1
  /\ props = [invisibleFieldValidation |-> "unset", resolver |-> FALSE,
              schema |-> FALSE]
  /\ memo = RenderMemos([parsedConfig |-> NoMemo, internalZodSchema |-> NoMemo,
                         dependencyMap |-> NoMemo], configRef, props)
  /\ formValues = defaultValues
  /\ previousValuesRef = [n \in FieldNames |-> Undefined]
  /\ visibility = calculateVisibility(parsedConfig.elements, defaultValues)
  /\ committedFrom = defaultValues
  /\ pendingVisibility = <<>>
  /\ stack = <<>>
  /\ log = <<>>
  /\ submitted = "none"
  /\ probe = NoProbe
  /\ NoSynthesis
  /\ NoUnit
  /\ \E tree \in Trees, registry \in Registries :
       \E built \in {BuildConfig(tree)} :
         /\ heap = built.heap
         /\ call = [NoCall EXCEPT !.config = built.ref,
                                  !.registry = registry,
                                  !.before = built.heap]

TreeSpec == TreeInit /\ [][ValidateCustomComponents]_vars

(***************************************************************************)
(* The form mounted from a configuration tree: DynamicForm parses the      *)
(* configuration, hands the customComponents prop to the context, and the  *)
(* renderers walk the tree.  The tree and the registry are the ones drawn  *)
(* for the validation of custom components, which the form does not call.  *)
(***************************************************************************)
\* what an element puts on screen, in document order: "field" for a
\* standard field, "custom" for a custom field whose component is
\* registered, "null" for one whose component is not (CustomFieldRenderer
\* returns null); a container renders its children, else its columns; a
\* column outside a container renders nothing
RECURSIVE RenderElement(_, _, _, _)
RECURSIVE RenderItems(_, _, _, _)
RenderItems(h, items, registry, inContainer) ==
  IF items = <<>> THEN <<>>
  ELSE RenderElement(h, Head(items), registry, inContainer)
       \o RenderItems(h, Tail(items), registry, inContainer)
RenderElement(h, ref, registry, inContainer) ==
  CASE h[ref].kind = "custom" ->
         <<IF h[ref].component \in registry THEN "custom" ELSE "null">>
    [] h[ref].kind = "container" ->
         IF h[ref].children # NoRef
         THEN RenderItems(h, h[h[ref].children].items, registry, FALSE)
         ELSE IF h[ref].columns # NoRef
         THEN RenderItems(h, h[h[ref].columns].items, registry, TRUE)
         ELSE <<>>
    [] h[ref].kind = "column" ->
         IF inContainer
         THEN RenderItems(h, h[h[ref].elements].items, registry, FALSE)
         ELSE <<>>
    [] OTHER -> <<"field">>

\* the console.warn of CustomFieldRenderer, one per element rendered null
WarningsOf(rendered) ==
  SelectSeq(rendered, LAMBDA outcome : outcome = "null")

\* <DynamicForm config={config} customComponents={registry} />: nothing on
\* the way checks the registry, so nothing is thrown
MountDynamicForm ==
  /\ call.config # NoRef
  /\ ~mount.done
  /\ \E rendered \in {RenderItems(heap, heap[heap[call.config].elements].items,
                                   call.registry, FALSE)} :
       mount' = [mount EXCEPT !.done = TRUE, !.thrown = FALSE, !.error = "",
                              !.rendered = rendered,
                              !.warned = WarningsOf(rendered)]
  /\ UNCHANGED <<formVars, probe, nestVars, treeVars, made, submission, evaluation>>

MountSpec == TreeInit /\ [][MountDynamicForm]_vars

(***************************************************************************)
(* ConfigurationError exercised on its own: a base message, a path and a   *)
(* component are drawn; the message is formatted once and an error is      *)
(* constructed once from the same arguments.                               *)
(***************************************************************************)
BaseMessages == {"is not registered", "has invalid props"}

\* an optional string argument: left out, empty, or one of two strings
PathArguments ==
  {Undefined, Str(""), Str("elements[0]"), Str("elements[1].columns[0]")}

ComponentArguments == {Undefined, Str(""), Str("Rating"), Str("Slider")}

\* ConfigurationError.formatMessage(baseMessage, path, component)
FormatMessage ==
  /\ ~made.formatted
  /\ made.baseMessage # ""
  /\ made' = [made EXCEPT
                !.formatted = TRUE,
                !.message = formatMessage(made.baseMessage, made.path,
                                          made.component)]
  /\ UNCHANGED <<formVars, probe, nestVars, treeVars, submission, evaluation, mount>>

\* new ConfigurationError(baseMessage, path, component)
Construct ==
  /\ ~made.constructed
  /\ made.baseMessage # ""
  /\ made' = [made EXCEPT
                !.constructed = TRUE,
                !.error = NewConfigurationError(made.baseMessage, made.path,
                                                made.component)]
  /\ UNCHANGED <<formVars, probe, nestVars, treeVars, submission, evaluation, mount>>

\* the form plays no part: it is the cascade form as constructed
ErrorInit ==
  /\ config = "cascade"
  /\ configRef = 1
  /\ props = [invisibleFieldValidation |-> "unset", resolver |-> FALSE,
              schema |-> FALSE]
  /\ memo = RenderMemos([parsedConfig |-> NoMemo, internalZodSchema |-> NoMemo,
                         dependencyMap |-> NoMemo], configRef, props)
  /\ formValues = defaultValues
  /\ previousValuesRef = [n \in FieldNames |-> Undefined]
  /\ visibility = calculateVisibility(parsedConfig.elements, defaultValues)
  /\ committedFrom = defaultValues
  /\ pendingVisibility = <<>>
  /\ stack = <<>>
  /\ log = <<>>
  /\ submitted = "none"
  /\ probe = NoProbe
  /\ NoSynthesis
  /\ NoTree
  /\ \E b \in BaseMessages, p \in PathArguments, c \in ComponentArguments :
       made = [NoMade EXCEPT !.baseMessage = b, !.path = p, !.component = c]
  /\ submission = NoSubmission
  /\ evaluation = NoEvaluation
  /\ mount = NoMount

ErrorNext == FormatMessage \/ Construct

ErrorSpec == ErrorInit /\ [][ErrorNext]_vars

(***************************************************************************)
(* A nested submission, exercised on its own: a configuration with the     *)
(* fields source.name, source.email and active is drawn in one of three    *)
(* layouts, its schema is generated once, and drawn data is parsed once.   *)
(***************************************************************************)
\* the three fields: a text field that is required or not, a second field
\* of one of three types, and a boolean
SubmissionFields(required, second) ==
  [name |-> [FieldElement("text", <<"source", "name">>) EXCEPT
               !.validation = IF required THEN Required ELSE NoValidation],
   email |-> FieldElement(second, <<"source", "email">>),
   active |-> FieldElement("boolean", <<"active">>)]

\* the fields at the top level, in the columns of a container, or in a
\* container inside a column
Layouts == {"top", "columns", "deep"}

SubmissionElements(layout, f) ==
  CASE layout = "top" -> <<f.name, f.email, f.active>>
    [] layout = "columns" ->
         <<ContainerElement(<<ColumnElement(<<f.name>>, NoRule),
                              ColumnElement(<<f.email>>, NoRule)>>,
                            <<f.active>>, NoRule)>>
    [] OTHER ->
         <<ContainerElement(
             <<ColumnElement(
                 <<f.name,
                   ContainerElement(<<ColumnElement(<<f.email>>, NoRule)>>,
                                    <<>>, NoRule)>>, NoRule)>>,
             <<>>, NoRule),
           f.active>>

SubmissionConfigs ==
  {SubmissionElements(layout, SubmissionFields(required, second)) :
     layout \in Layouts, required \in BOOLEAN,
     second \in {"email", "phone", "custom"}}

\* the object with the given keys only
Pick(object, keys) == [k \in keys |-> object[k]]

\* the values given to the three fields
NameValues == {Str(""), Str("a"), Bool(TRUE)}
EmailValues == {Str(""), Str("a")}
ActiveValues == {Bool(TRUE), Bool(FALSE)}

\* the source object, with any of its keys left out
SourceObjects ==
  {Pick([name |-> n, email |-> e], keys) :
     n \in NameValues, e \in EmailValues, keys \in SUBSET {"name", "email"}}

\* data nested by segment with any of its keys left out, the source level
\* included, and data keyed by the whole dotted name
SubmissionData ==
  {Pick([source |-> s, active |-> a], keys) :
     s \in SourceObjects, a \in ActiveValues,
     keys \in {{"source", "active"}, {"source"}, {"active"}}}
  \cup {("source.name" :> n) @@ ("source.email" :> Str("a"))
        @@ ("active" :> Bool(TRUE)) : n \in NameValues}

\* const schema = generateZodSchema(config)
GenerateZodSchema ==
  /\ submission.elements # <<>>
  /\ ~submission.generated
  /\ submission' = [submission EXCEPT
                      !.generated = TRUE,
                      !.schema = SchemaShapeOf(submission.elements)]
  /\ UNCHANGED <<formVars, probe, nestVars, treeVars, made, evaluation, mount>>

\* schema.safeParse(data)
SafeParseSubmission ==
  /\ submission.generated /\ submission.schema.ok
  /\ ~submission.parsed
  /\ submission' = [submission EXCEPT
                      !.parsed = TRUE,
                      !.issues = safeParseFields(
                                   ObjectSchema(submission.schema.shape, FALSE),
                                   TRUE, submission.data, <<>>)]
  /\ UNCHANGED <<formVars, probe, nestVars, treeVars, made, evaluation, mount>>

\* the form plays no part: it is the cascade form as constructed
SubmissionInit ==
  /\ config = "cascade"
  /\ configRef = 1
  /\ props = [invisibleFieldValidation |-> "unset", resolver |-> FALSE,
              schema |-> FALSE]
  /\ memo = RenderMemos([parsedConfig |-> NoMemo, internalZodSchema |-> NoMemo,
                         dependencyMap |-> NoMemo], configRef, props)
  /\ formValues = defaultValues
  /\ previousValuesRef = [n \in FieldNames |-> Undefined]
  /\ visibility = calculateVisibility(parsedConfig.elements, defaultValues)
  /\ committedFrom = defaultValues
  /\ pendingVisibility = <<>>
  /\ stack = <<>>
  /\ log = <<>>
  /\ submitted = "none"
  /\ probe = NoProbe
  /\ NoSynthesis
  /\ NoTree
  /\ made = NoMade
  /\ evaluation = NoEvaluation
  /\ mount = NoMount
  /\ \E elements \in SubmissionConfigs, data \in SubmissionData :
       submission = [NoSubmission EXCEPT !.elements = elements, !.data = data]

SubmissionNext == GenerateZodSchema \/ SafeParseSubmission

SubmissionSpec == SubmissionInit /\ [][SubmissionNext]_vars

(***************************************************************************)
(* A rule evaluated on its own: a rule and a values object are drawn, the  *)
(* rule is evaluated once, and the visibility of a field that declares it  *)
(* as its visible rule is computed.                                        *)
(***************************************************************************)
\* literals, and variables whose path is or is not in the values
RuleLeaves ==
  {Lit(Str("aa")), Lit(Bool(TRUE)), Var(<<"a">>), Var(<<"missing">>),
   Var(<<"b", "c">>), Var(<<"b", "missing">>), Var(<<"missing", "c">>)}

\* the operators of the evaluator
KnownOperators == {"var", "===", "!==", "!", "and", "or", "if", "regex_match"}

\* the number of arguments of the operators that take a fixed number
Arity ==
  ("===" :> 2) @@ ("!==" :> 2) @@ ("!" :> 1) @@ ("if" :> 3)
  @@ ("regex_match" :> 2)

\* nodes with the number of arguments their operator takes
WellFormedRules ==
  {Op(o, <<x, y>>) : o \in {"===", "!==", "and", "or"},
                     x \in RuleLeaves, y \in RuleLeaves}
  \cup {Op("!", <<x>>) : x \in RuleLeaves}
  \cup {Op("if", <<x, y, Lit(Bool(FALSE))>>) : x \in RuleLeaves, y \in RuleLeaves}
  \cup {Op("regex_match", <<Lit(Str(p)), x>>) :
          p \in Patterns \ {""}, x \in RuleLeaves}

\* nodes of an operator the evaluator does not know, and nodes with too
\* few or too many arguments
MalformedRules ==
  {Op("xor", <<x, y>>) : x \in RuleLeaves, y \in RuleLeaves}
  \cup {Op("===", <<x>>) : x \in RuleLeaves}
  \cup {Op("!", <<>>), Op("!", <<Lit(Bool(TRUE)), Lit(Bool(TRUE))>>),
         Op("if", <<Lit(Bool(TRUE)), Lit(Str("aa"))>>),
         Op("regex_match", <<Lit(Str("("))>>), Op("regex_match", <<Lit(Str("^a{2}$"))>>)}

\* a rule that holds a malformed node or a missing variable as an argument
RulesAround(inner) ==
  {Op("!", <<inner>>), Op("and", <<inner, Lit(Bool(TRUE))>>),
   Op("or", <<inner, Lit(Str("aa"))>>),
   Op("if", <<inner, Lit(Str("aa")), Lit(Bool(FALSE))>>),
   Op("regex_match", <<Lit(Str("(")), inner>>)}

DrawnRules ==
  RuleLeaves \cup WellFormedRules \cup MalformedRules
  \cup UNION {RulesAround(m) : m \in MalformedRules \cup {Var(<<"missing">>)}}

\* values objects, some of them partial
DrawnValues ==
  {EmptyObject, [a |-> Str("aa")], [a |-> Str(""), b |-> EmptyObject],
   [a |-> Bool(FALSE), b |-> [c |-> Str("aa")]]}

\* the field that declares the rule
RuledField(rule) == [FieldElement("text", <<"ruled">>) EXCEPT !.visible = rule]

\* applyJsonLogic(rule, data); calculateVisibility([field], data)
EvaluateRule ==
  /\ evaluation.rule.op # "none"
  /\ ~evaluation.done
  /\ evaluation' = [evaluation EXCEPT
                      !.done = TRUE,
                      !.result = applyJsonLogic(evaluation.rule, evaluation.data),
                      !.visibility = calculateVisibility(
                                       <<RuledField(evaluation.rule)>>,
                                       evaluation.data)]
  /\ UNCHANGED <<formVars, probe, nestVars, treeVars, made, submission, mount>>

\* the form plays no part: it is the cascade form as constructed
RuleInit ==
  /\ config = "cascade"
  /\ configRef = 1
  /\ props = [invisibleFieldValidation |-> "unset", resolver |-> FALSE,
              schema |-> FALSE]
  /\ memo = RenderMemos([parsedConfig |-> NoMemo, internalZodSchema |-> NoMemo,
                         dependencyMap |-> NoMemo], configRef, props)
  /\ formValues = defaultValues
  /\ previousValuesRef = [n \in FieldNames |-> Undefined]
  /\ visibility = calculateVisibility(parsedConfig.elements, defaultValues)
  /\ committedFrom = defaultValues
  /\ pendingVisibility = <<>>
  /\ stack = <<>>
  /\ log = <<>>
  /\ submitted = "none"
  /\ probe = NoProbe
  /\ NoSynthesis
  /\ NoTree
  /\ made = NoMade
  /\ submission = NoSubmission
  /\ mount = NoMount
  /\ \E rule \in DrawnRules, data \in DrawnValues :
       evaluation = [NoEvaluation EXCEPT !.rule = rule, !.data = data]

RuleSpec == RuleInit /\ [][EvaluateRule]_vars

(***************************************************************************)
(* Properties.                                                             *)
(***************************************************************************)
Fields == flattenFields(parsedConfig.elements)
FieldSet == {Fields[i] : i \in 1..Len(Fields)}

\* the fields a change of parent is to reset
ResettableDependents(parent) ==
  {f.name : f \in {g \in FieldSet : g.dependsOn = parent
                                     /\ g.resetOnParentChange # Bool(FALSE)}}

\* the fields that opt out of the reset
KeptDependents ==
  {f.name : f \in {g \in FieldSet : g.dependsOn # NoName
                                     /\ g.resetOnParentChange = Bool(FALSE)}}

LogIndex == 1..Len(log)

\* invocation k of the callback has run to its end
FrameDone(k) ==
  \E i \in LogIndex : log[i].kind = "onChange" /\ log[i].frame = k

\* the assignments invocation k issued to field d
ResetsOf(k, d) ==
  {j \in LogIndex : log[j].kind = "setValue" /\ log[j].frame = k /\ log[j].name = d}

\* a notification for a named field
IsFieldEvent(i) == log[i].kind = "event" /\ log[i].name # NoName

\* C1: whenever a change event for a field arrives and the field's value
\* differs from the value it held before the event, every dependent that
\* does not opt out is assigned its default exactly once for that change.
C1_CascadingReset ==
  \A i \in LogIndex :
    (IsFieldEvent(i) /\ log[i].before # log[i].after /\ FrameDone(log[i].frame))
    => \A d \in ResettableDependents(log[i].name) :
         /\ Cardinality(ResetsOf(log[i].frame, d)) = 1
         /\ \A j \in ResetsOf(log[i].frame, d) :
              log[j].after = getFieldDefault(findFieldByName(parsedConfig.elements, d))

\* C2: an event for a field whose value equals the value the field held
\* before the event resets no dependent (the first event included).
C2_NoSpuriousReset ==
  \A i \in LogIndex :
    (IsFieldEvent(i) /\ log[i].before = log[i].after)
    => \A j \in LogIndex :
         ~(log[j].kind = "setValue" /\ log[j].frame = log[i].frame)

\* C3: while the engine handles a change (the callback is running), the
\* value of a dependent that sets resetOnParentChange: false stays as it is.
C3_KeptDependentUntouched ==
  [][stack # <<>> =>
       \A d \in KeptDependents :
         getNestedValue(formValues', d) = getNestedValue(formValues, d)]_vars

\* a change of the parent has been handled: its other dependent was reset
\* and the dependent that opts out still holds a value that is not its default
C3_Witness ==
  \E i \in LogIndex :
    /\ IsFieldEvent(i) /\ log[i].before # log[i].after /\ FrameDone(log[i].frame)
    /\ \E d \in ResettableDependents(log[i].name) : ResetsOf(log[i].frame, d) # {}
    /\ \E d \in KeptDependents :
         LET f == findFieldByName(parsedConfig.elements, d)
         IN  f.dependsOn = log[i].name
             /\ getNestedValue(formValues, d) # getFieldDefault(f)

\* the log entries of one kind that invocation k wrote
KindOf(k, kind) ==
  {i \in LogIndex : log[i].kind = kind /\ log[i].frame = k}

\* C4: for one event of a named field the visibility update comes first,
\* then the dependency resets, then the consumer's onChange; the update is
\* computed from the values of the event, before any reset of that event,
\* and each reset is seen by the recomputation of the notification that the
\* reset itself triggers.
C4_EventOrdering ==
  \A i \in LogIndex :
    IsFieldEvent(i) =>
      LET k == log[i].frame
      IN  /\ Cardinality(KindOf(k, "visibility")) <= 1
          /\ Cardinality(KindOf(k, "onChange")) <= 1
          /\ \A j \in KindOf(k, "setValue") :
               \E v \in KindOf(k, "visibility") : v < j
          /\ \A o \in KindOf(k, "onChange") :
               /\ \E v \in KindOf(k, "visibility") : v < o
               /\ \A j \in KindOf(k, "setValue") : j < o
          /\ \A v \in KindOf(k, "visibility") :
               log[v].vis = calculateVisibility(parsedConfig.elements, log[i].data)
          /\ \A j \in KindOf(k, "setValue") :
               j + 2 <= Len(log) =>
                 /\ log[j + 1].kind = "event"
                 /\ log[j + 2].kind = "visibility"
                 /\ log[j + 2].frame = log[j + 1].frame
                 /\ log[j + 2].vis =
                      calculateVisibility(parsedConfig.elements,
                        setNestedValue(log[j].data, log[j].name, log[j].after))

\* an event has been handled to its end, it reset a dependent, and the
\* visibility it computed differs from the one computed after the reset
C4_Witness ==
  \E i \in LogIndex :
    /\ IsFieldEvent(i) /\ FrameDone(log[i].frame)
    /\ \E v \in KindOf(log[i].frame, "visibility") :
         \E j \in KindOf(log[i].frame, "setValue") :
           /\ v < j /\ j + 2 <= Len(log)
           /\ log[j + 2].kind = "visibility"
           /\ log[j + 2].vis # log[v].vis

\* C5: the handling of one event comes to an end, dependsOn cycles included:
\* the callback never nests MaxDepth deep and every invocation returns.
C5_CycleTerminates ==
  /\ [](Len(stack) < MaxDepth)
  /\ (stack # <<>>) ~> (stack = <<>>)

\* the cascade has come back to a field whose invocation is still open
C5_Witness ==
  \E i, j \in 1..Len(stack) :
    i < j /\ stack[i].name # NoName /\ stack[i].name = stack[j].name

\* C6: once a sequence of events has been handled, cascading resets
\* included, the visibility state is the map calculateVisibility gives for
\* the current values, one boolean per field and nothing carried over; at
\* every moment it is the map of the values of the latest recomputation.
C6_VisibilityOfCurrentValues ==
  /\ DOMAIN visibility = FieldNames
  /\ visibility = calculateVisibility(parsedConfig.elements, committedFrom)
  /\ Idle => visibility = calculateVisibility(parsedConfig.elements, formValues)

\* events have been handled, a cascade among them, and the visibility is no
\* longer the one of the first render
C6_Witness ==
  /\ Idle
  /\ visibility # calculateVisibility(parsedConfig.elements, defaultValues)
  /\ \E n \in FieldNames : previousValuesRef[n] # Undefined

RECURSIVE EnclosingRules(_, _)
RECURSIVE EnclosingColumnRules(_, _)
EnclosingColumnRules(cols, chain) ==
  IF cols = <<>> THEN <<>>
  ELSE EnclosingRules(Head(cols).elements, Append(chain, Head(cols).visible))
       \o EnclosingColumnRules(Tail(cols), chain)
\* every field with the visible rules of the containers and columns around it
EnclosingRules(elements, chain) ==
  IF elements = <<>> THEN <<>>
  ELSE LET e == Head(elements)
           here == IF isFieldElement(e) THEN << [field |-> e, rules |-> chain] >>
                   ELSE IF isContainerElement(e)
                        THEN EnclosingColumnRules(e.columns, Append(chain, e.visible))
                             \o EnclosingRules(e.children, Append(chain, e.visible))
                   ELSE IF isColumnElement(e)
                        THEN EnclosingRules(e.elements, Append(chain, e.visible))
                   ELSE <<>>
       IN  here \o EnclosingRules(Tail(elements), chain)

Enclosed ==
  LET es == EnclosingRules(parsedConfig.elements, <<>>)
  IN  {es[i] : i \in 1..Len(es)}

\* every rule around the field holds for the values
AncestorsHold(r, values) ==
  \A i \in 1..Len(r.rules) :
    r.rules[i].op = "none" \/ evaluateCondition(r.rules[i], values)

\* the map is the conjunction over each field's chain
ChainConjunction(vis, values) ==
  \A r \in Enclosed :
    vis[r.field.name] = (OwnVisible(r.field, values) /\ AncestorsHold(r, values))

\* C7: a field's visibility is the conjunction of its own rule and the rule
\* of every container and column around it: under a falsy ancestor rule
\* the field is invisible whatever its own rule says.
C7_AncestorChain ==
  /\ ChainConjunction(visibility, committedFrom)
  /\ \A u \in 1..Len(pendingVisibility) :
       ChainConjunction(pendingVisibility[u].vis, pendingVisibility[u].from)
  /\ Idle => ChainConjunction(visibility, formValues)

\* after some event, a field whose own rule holds is invisible because a
\* rule around it does not
C7_Witness ==
  /\ Idle
  /\ formValues # defaultValues
  /\ \E r \in Enclosed :
       /\ r.field.visible.op # "none"
       /\ OwnVisible(r.field, formValues)
       /\ ~AncestorsHold(r, formValues)
       /\ visibility[r.field.name] = FALSE

VisibilityAware == ~props.resolver

\* what the validator behind the resolver reports for the current values
UnderlyingErrors ==
  IF props.schema THEN ExternalSchema(parsedConfig, formValues)
  ELSE generateZodSchema(parsedConfig, formValues)

\* the mode in force: skip unless the caller chose another
ModeInForce ==
  IF props.invisibleFieldValidation = "unset" THEN "skip"
  ELSE props.invisibleFieldValidation

\* the invisible fields that fail their validation
InvisibleFailing ==
  {n \in DOMAIN UnderlyingErrors : n \in FieldNames /\ visibility[n] = FALSE}

\* the visible fields that fail their validation
VisibleFailing ==
  {n \in DOMAIN UnderlyingErrors : n \in FieldNames /\ visibility[n] # FALSE}

\* C9: for a field that is invisible and fails its validation, the
\* visibility-aware resolver in mode skip, the form's default, reports no
\* error, and a submission is refused only for an error of a visible field;
\* in mode validate and in mode warn it reports the field's error.
C9_SkipDropsInvisible ==
  VisibilityAware =>
    /\ \A n \in InvisibleFailing :
         IF ModeInForce = "skip"
         THEN n \notin DOMAIN FormResolver(formValues).errors
         ELSE /\ n \in DOMAIN FormResolver(formValues).errors
              /\ FormResolver(formValues).errors[n] = UnderlyingErrors[n]
    /\ (ModeInForce = "skip" /\ submitted = "onError") => VisibleFailing # {}
    /\ (ModeInForce = "skip" /\ submitted = "onSubmit") => VisibleFailing = {}

\* a form constructed without a mode has been submitted and accepted while
\* an invisible field fails its validation
C9_Witness ==
  /\ VisibilityAware
  /\ props.invisibleFieldValidation = "unset"
  /\ submitted = "onSubmit"
  /\ InvisibleFailing # {}

\* C10: in every mode the resolver's result holds the error of each visible
\* field exactly as the underlying validator produced it, and no error for
\* a visible field the validator accepted.
C10_VisibleErrorsUnchanged ==
  VisibilityAware =>
    \A n \in FieldNames :
      visibility[n] # FALSE =>
        /\ n \in DOMAIN FormResolver(formValues).errors
             <=> n \in DOMAIN UnderlyingErrors
        /\ n \in DOMAIN UnderlyingErrors
             => FormResolver(formValues).errors[n] = UnderlyingErrors[n]

\* after some event the resolver drops the error of an invisible field and
\* passes the error of a visible one
C10_Witness ==
  /\ VisibilityAware
  /\ ModeInForce = "skip"
  /\ Idle
  /\ formValues # defaultValues
  /\ InvisibleFailing # {}
  /\ \E n \in VisibleFailing : n \in DOMAIN FormResolver(formValues).errors

\* the fields whose validation declares a condition that the current
\* values make falsy
ConditionOff ==
  {f \in FieldSet : /\ f.validation.condition.op # "none"
                    /\ ~evaluateCondition(f.validation.condition, formValues)}

ProbeIsString == probe.value[1] = "string"
ProbeLength == Len(probe.value[2])
ProbeAccepted == probe.issues = <<>>
ProbeIssues == {probe.issues[i] : i \in 1..Len(probe.issues)}
\* the field types whose base schema is the plain string schema
PlainStringTypes == {"text", "phone", "date"}

\* C17: a boolean field with required: true rejects false and accepts true;
\* without a truthy required it accepts both; a value that is no boolean
\* is rejected either way.
C17_RequiredBoolean ==
  (probe.parsed /\ probe.field.type = "boolean") =>
    /\ probe.value[1] # "boolean" => ~ProbeAccepted
    /\ probe.value = Bool(TRUE) => ProbeAccepted
    /\ probe.value = Bool(FALSE) =>
         (ProbeAccepted <=> ~probe.field.validation.required)

\* a required boolean has been parsed with false and rejected as required
C17_Witness ==
  /\ probe.parsed
  /\ probe.field.type = "boolean"
  /\ probe.field.validation.required
  /\ probe.value = Bool(FALSE)
  /\ probe.issues = <<"This field is required">>

ProbeWithoutPattern ==
  [probe.field EXCEPT !.validation.pattern = ""]

\* C20: a field whose pattern is no regular expression still gets a schema;
\* the pattern adds no check, and the field's other rules and the rules of
\* the other field are enforced as without the pattern.
C20_PatternTolerance ==
  ( /\ probe.parsed
    /\ probe.field.validation.pattern # ""
    /\ ~IsValidRegExp(probe.field.validation.pattern) ) =>
    /\ "SyntaxError" \notin ProbeIssues
    /\ probe.issues = buildFieldSchema(ProbeWithoutPattern, probe.value)
    /\ (<<"probe">> \in DOMAIN probe.errors) <=> ~ProbeAccepted
    /\ (<<"other">> \in DOMAIN probe.errors) <=> probe.other = Str("")

\* a field with pattern "(" and minLength 2 has refused a one-letter
\* string for its length while the other field was refused as empty
C20_Witness ==
  /\ probe.parsed
  /\ probe.field.type = "text"
  /\ probe.field.validation.pattern = "("
  /\ probe.field.validation.minLength = 2
  /\ probe.value = Str("a")
  /\ probe.issues = <<"Must be at least 2 characters">>
  /\ probe.other = Str("")
  /\ DOMAIN probe.errors = {<<"probe">>, <<"other">>}

(***************************************************************************)
(* Properties of the nested schema shapes.                                  *)
(***************************************************************************)
InstalledPaths == {installed[i].path : i \in 1..Len(installed)}

\* the installed paths are unique and none lies above another
NonColliding ==
  \A i, j \in 1..Len(installed) :
    i # j => ~IsPrefix(installed[i].path, installed[j].path)

\* C14: when unique, non-colliding paths are installed in any order,
\* getNestedSchema returns for each of them the validator assigned to it,
\* and undefined for a path with a segment that no installed path has
C14_RoundTripNesting ==
  (schemaShape.ok /\ NonColliding) =>
    /\ \A i \in 1..Len(installed) :
         getNestedSchema(schemaShape.shape, installed[i].path)
           = Leaf(installed[i].validator)
    /\ \A p \in NestPaths :
         (\A q \in InstalledPaths : ~IsPrefix(p, q))
           => getNestedSchema(schemaShape.shape, p) = NoSchema

\* two siblings below one parent, installed one after the other, next to a
\* path that misses a segment
C14_Witness ==
  /\ schemaShape.ok /\ NonColliding
  /\ Len(installed) = 2
  /\ Len(installed[1].path) = 2
  /\ Len(installed[2].path) = 2
  /\ installed[1].path[1] = installed[2].path[1]
  /\ installed[1].validator # installed[2].validator
  /\ getNestedSchema(schemaShape.shape, <<"b", "a">>) = NoSchema
  /\ getNestedSchema(schemaShape.shape, <<"a", "a">>) # NoSchema

\* the object levels of a shape, by their paths
RECURSIVE ObjectLevels(_, _)
ObjectLevels(shape, at) ==
  UNION {IF shape[k].kind = "object"
         THEN {Append(at, k)} \union ObjectLevels(shape[k].shape, Append(at, k))
         ELSE {} : k \in DOMAIN shape}

\* C15: data with an unknown key at every nested level is accepted, and the
\* output keeps the unknown key at every nested level
C15_OpenLevels ==
  (parsed.done /\ ExtraKey \in DOMAIN parsed.data) =>
    /\ parsed.result.success
    /\ \A p \in ObjectLevels(schemaShape.shape, <<>>) :
         /\ getNestedSchema(schemaShape.shape, p).open
         /\ getNestedValue(parsed.result.data, Append(p, ExtraKey)) = Str("kept")

\* data with unknown keys at two nested levels was parsed
C15_Witness ==
  /\ parsed.done /\ ExtraKey \in DOMAIN parsed.data
  /\ ObjectLevels(schemaShape.shape, <<>>) = {<<"a">>, <<"b">>}
  /\ parsed.result.data["a"][ExtraKey] = Str("kept")
  /\ parsed.result.data["b"][ExtraKey] = Str("kept")

\* C16: when a path is installed below or above a path installed before
\* it, the synthesis fails with an error that names the path, whichever of
\* the two came first
C16_CollisionIsError ==
  \A i, j \in 1..Len(installed) :
    (i < j /\ installed[i].path # installed[j].path
       /\ (IsPrefix(installed[i].path, installed[j].path)
             \/ IsPrefix(installed[j].path, installed[i].path)))
      => (~schemaShape.ok /\ schemaShape.error = installed[j].path)

(***************************************************************************)
(* Properties of the memoised derivations.                                  *)
(***************************************************************************)
\* C12: a step that leaves the config prop the object it was leaves the
\* generated schema and the dependency map the ones computed before
C12_DerivedOncePerConfiguration ==
  [][configRef' = configRef =>
       /\ memo'.internalZodSchema = memo.internalZodSchema
       /\ memo'.dependencyMap = memo.dependencyMap]_vars

\* a value was changed, a dependent was reset, the visibility changed and
\* was rendered, and the schema and the map are still the first ones
C12_Witness ==
  /\ Idle
  /\ configRef = 1
  /\ memo.internalZodSchema.version = 1
  /\ memo.dependencyMap.version = 1
  /\ formValues # defaultValues
  /\ visibility # calculateVisibility(parsedConfig.elements, defaultValues)

(***************************************************************************)
(* Properties of the validation of custom components.                       *)
(***************************************************************************)
\* the objects the claim names
Copied == {"config", "container", "column"}

\* C13: validateCustomComponents leaves every object of the caller's tree
\* as it was; when it returns, the tree returned has the structure of the
\* caller's and its config, container and column objects are new ones
C13_InputUnchanged ==
  call.done =>
    /\ SubSeq(heap, 1, Len(call.before)) = call.before
    /\ ~call.thrown =>
         /\ Unfold(heap, call.result) = Unfold(call.before, call.config)
         /\ \A r \in Reachable(heap, call.result) :
              heap[r].kind \in Copied => r > Len(call.before)

\* a tree with a container of columns and children and a custom element
\* was validated, and a text field of the caller is part of the result
C13_Witness ==
  /\ call.done /\ ~call.thrown
  /\ \E r \in Reachable(heap, call.result) :
       /\ heap[r].kind = "container"
       /\ heap[r].columns # NoRef /\ heap[r].children # NoRef
  /\ \E r \in Reachable(heap, call.result) : heap[r].kind = "custom"
  /\ \E r \in Reachable(heap, call.result) :
       heap[r].kind = "text" /\ r <= Len(call.before)

(***************************************************************************)
(* Properties of the change detection of handleDependencyReset.             *)
(***************************************************************************)
\* a field whose name is a dot path
IsDotPath(name) == Len(name) > 1

\* C26: an event for a parent with a dot-path name resets the parent's
\* dependents when the value at the nested path changed, and resets none
\* when it did not
C26_NestedParentReset ==
  \A i \in LogIndex :
    (IsFieldEvent(i) /\ IsDotPath(log[i].name) /\ FrameDone(log[i].frame))
    => /\ log[i].before # log[i].after
            => \A d \in ResettableDependents(log[i].name) :
                 ResetsOf(log[i].frame, d) # {}
       /\ log[i].before = log[i].after
            => \A d \in ResettableDependents(log[i].name) :
                 ResetsOf(log[i].frame, d) = {}

\* the form values before the event of log entry i
ValuesBefore(i) == setNestedValue(log[i].data, log[i].name, log[i].before)

\* C27: when the form holds its default values, as it does after a
\* whole-form reset, a change of a parent from its default to another value
\* resets the parent's dependents, whatever the parent was changed to before
C27_ResetKeepsDetectionInSync ==
  \A i \in LogIndex :
    (/\ IsFieldEvent(i) /\ ~IsDotPath(log[i].name) /\ FrameDone(log[i].frame)
     /\ log[i].frame = 1
     /\ ValuesBefore(i) = defaultValues
     /\ log[i].before # log[i].after)
    => \A d \in ResettableDependents(log[i].name) :
         ResetsOf(log[i].frame, d) # {}

(***************************************************************************)
(* Properties of the notifications.                                         *)
(***************************************************************************)
\* C29: the callback called without a field name queues the visibility of
\* the new values and returns: it assigns no field, leaves the remembered
\* parent values as they are and does not call onChange
C29_NamelessNotification ==
  [][(stack # <<>> /\ Top.name = NoName) =>
       /\ stack' = SubSeq(stack, 1, Len(stack) - 1)
       /\ formValues' = formValues
       /\ previousValuesRef' = previousValuesRef
       /\ Len(log') = Len(log) + 1
       /\ log'[Len(log')].kind = "visibility"
       /\ pendingVisibility' # <<>>
       /\ pendingVisibility'[Len(pendingVisibility')].vis
            = calculateVisibility(parsedConfig.elements, formValues)]_vars

\* a whole-form reset was notified after a parent had been changed: the
\* visibility queued differs from the one on screen, the remembered parent
\* value is still there
C29_Witness ==
  /\ stack = <<>>
  /\ Len(log) = 2
  /\ log[1].kind = "event" /\ log[1].name = NoName
  /\ log[2].kind = "visibility"
  /\ log[2].vis # visibility
  /\ \E n \in DOMAIN previousValuesRef : previousValuesRef[n] # Undefined

\* the onChange calls of the event being handled, by their place in the log
OnChangeCalls == {i \in LogIndex : log[i].kind = "onChange"}

\* C30: once an event that reset a dependent has been handled, the data
\* the last onChange call of the event was given are the form's values
C30_LastOnChangeHasResetValues ==
  (/\ stack = <<>>
   /\ \E j \in LogIndex : log[j].kind = "setValue"
   /\ OnChangeCalls # {})
  => \A i \in OnChangeCalls :
       (\A j \in OnChangeCalls : j <= i) => log[i].data = formValues

(***************************************************************************)
(* Properties of the visibility the resolver reads.                         *)
(***************************************************************************)
\* C28: the visibility a validation read through getVisibility is the
\* visibility of the values it validated
C28_ResolverReadsCurrentVisibility ==
  \A i \in LogIndex :
    log[i].kind = "trigger"
      => log[i].vis = calculateVisibility(parsedConfig.elements, log[i].data)

(***************************************************************************)
(* Properties of the selection of the validator.                            *)
(***************************************************************************)
\* the errors of a validator once the errors of invisible fields are
\* treated as the mode in force says
Wrapped(errors) ==
  [n \in {m \in DOMAIN errors : ModeInForce # "skip" \/ m \notin FieldNames
                                  \/ visibility[m] # FALSE} |-> errors[n]]

\* C23: a supplied resolver is used as it is; else a supplied schema is
\* wrapped; else the generated schema is wrapped; the schema is generated
\* only when neither is supplied
C23_ValidatorPrecedence ==
  /\ FormResolver(formValues).errors =
       IF props.resolver THEN ExternalResolver(parsedConfig, formValues)
       ELSE IF props.schema
       THEN Wrapped(ExternalSchema(parsedConfig, formValues))
       ELSE Wrapped(generateZodSchema(parsedConfig, formValues))
  /\ (internalZodSchema # "null") <=> (~props.resolver /\ ~props.schema)

\* resolver and schema are both supplied, the mode is skip, and the
\* resolver's error for an invisible field is reported
C23_Witness ==
  /\ props.resolver /\ props.schema
  /\ ModeInForce = "skip"
  /\ submitted = "onError"
  /\ \E n \in FieldNames :
       /\ visibility[n] = FALSE
       /\ n \in DOMAIN FormResolver(formValues).errors
       /\ FormResolver(formValues).errors[n] = "resolver: falsy"

\* an optional argument that was passed, whatever its value
Passed(argument) == argument # Undefined

\* an optional argument that was passed and is not the empty string
Given(argument) == argument # Undefined /\ argument # Str("")

\* C25 as stated: formatMessage returns 'Component "<component>" at <path>:
\* <base>' when both path and component are passed, 'at <path>: <base>' with
\* a path only, 'Component "<component>": <base>' with a component only and
\* the base message when neither is passed; a constructed error keeps
\* message, path and component as passed.
C25_FormatMessageOfPassed ==
  /\ made.formatted =>
       made.message =
         CASE Passed(made.component) /\ Passed(made.path) ->
                "Component \"" \o made.component[2] \o "\" at " \o made.path[2]
                \o ": " \o made.baseMessage
           [] ~Passed(made.component) /\ Passed(made.path) ->
                "at " \o made.path[2] \o ": " \o made.baseMessage
           [] Passed(made.component) /\ ~Passed(made.path) ->
                "Component \"" \o made.component[2] \o "\": " \o made.baseMessage
           [] OTHER -> made.baseMessage
  /\ made.constructed =>
       /\ made.error.message = made.baseMessage
       /\ made.error.path = made.path
       /\ made.error.component = made.component

\* C25, amended: the same four cases, where a path or a component counts
\* as given when it is passed and is not the empty string; a constructed
\* error keeps message, path and component exactly as passed, the empty
\* string included.
C25_FormatMessage ==
  /\ made.formatted =>
       made.message =
         CASE Given(made.component) /\ Given(made.path) ->
                "Component \"" \o made.component[2] \o "\" at " \o made.path[2]
                \o ": " \o made.baseMessage
           [] ~Given(made.component) /\ Given(made.path) ->
                "at " \o made.path[2] \o ": " \o made.baseMessage
           [] Given(made.component) /\ ~Given(made.path) ->
                "Component \"" \o made.component[2] \o "\": " \o made.baseMessage
           [] OTHER -> made.baseMessage
  /\ made.constructed =>
       /\ made.error.name = "ConfigurationError"
       /\ made.error.message = made.baseMessage
       /\ made.error.path = made.path
       /\ made.error.component = made.component

\* a component with an empty path was formatted, and the error constructed
C25_Witness ==
  /\ made.formatted /\ made.constructed
  /\ made.path = Str("") /\ made.component = Str("Rating")
  /\ made.message = "Component \"Rating\": is not registered"
  /\ made.error.path = Str("")
\* every object level on the way to the field is in the data
RECURSIVE LevelsPresent(_, _)
LevelsPresent(data, name) ==
  \/ Len(name) = 1
  \/ /\ Head(name) \in DOMAIN data
     /\ LevelsPresent(data[Head(name)], Tail(name))

SubmissionFieldSet ==
  {flattenFields(submission.elements)[i] :
     i \in 1..Len(flattenFields(submission.elements))}

\* the fields whose validator rejects the value at the field's nested path
Rejecting ==
  {f \in SubmissionFieldSet :
     buildFieldSchema(f, getNestedValue(submission.data, f.name)) # <<>>}

\* C24: for fields with dot-notation names, also inside containers and
\* columns, the generated schema holds each field's validator at the
\* field's nested path; parsing data in which the object levels are
\* present reports exactly the fields whose value at the nested path fails
\* the field's validator, and the data is accepted iff no field fails;
\* data lacking an object level is rejected.
C24_NestedSubmissionShape ==
  /\ submission.generated =>
       /\ submission.schema.ok
       /\ DOMAIN submission.schema.shape = {"source", "active"}
       /\ \A f \in SubmissionFieldSet :
            /\ getNestedSchema(submission.schema.shape, f.name).kind = "leaf"
            /\ getNestedSchema(submission.schema.shape, f.name).validator = f
  /\ submission.parsed =>
       IF \A f \in SubmissionFieldSet : LevelsPresent(submission.data, f.name)
       THEN /\ submission.issues =
                 {<<f.name, buildFieldSchema(
                              f, getNestedValue(submission.data, f.name))[1]>> :
                    f \in Rejecting}
            /\ (submission.issues = {}) <=> (Rejecting = {})
       ELSE submission.issues # {}

\* nested data was accepted by the schema of fields placed in columns, one
\* of them required
C24_Witness ==
  /\ submission.parsed /\ submission.issues = {}
  /\ submission.elements[1].type = "container"
  /\ \E f \in SubmissionFieldSet : f.name = <<"source", "name">>
                                     /\ f.validation.required
  /\ getNestedValue(submission.data, <<"source", "name">>) = Str("a")
  /\ getNestedValue(submission.data, <<"source", "email">>) = Str("a")
\* the path of the variable leads to no value of the data
MissingPath(rule, data) ==
  rule.op = "var" /\ getNestedValue(data, rule.path) = Undefined

\* the node's operator is not one of the evaluator's, or takes another
\* number of arguments
IsMalformed(rule) ==
  /\ rule.op \notin {"lit", "var"}
  /\ \/ rule.op \notin KnownOperators
     \/ rule.op \in DOMAIN Arity /\ Len(rule.args) # Arity[rule.op]

\* C22: evaluating any rule against any values never raises; a var of a
\* missing path, an unknown operator and a wrong-arity node evaluate to
\* undefined, which the operators around them treat as falsy; regex_match
\* with an invalid pattern evaluates to false; the visibility computed
\* from the rule is a boolean, the truthiness of the rule's result.
C22_EvaluationIsTotal ==
  evaluation.done =>
    /\ evaluation.result # Raised
    /\ MissingPath(evaluation.rule, evaluation.data)
         => evaluation.result = Undefined
    /\ IsMalformed(evaluation.rule) => evaluation.result = Undefined
    /\ (/\ evaluation.rule.op = "regex_match" /\ Len(evaluation.rule.args) = 2
        /\ ~IsValidRegExp(evaluation.rule.args[1].val[2]))
         => evaluation.result = Bool(FALSE)
    /\ (/\ evaluation.rule.op = "!" /\ Len(evaluation.rule.args) = 1
        /\ \/ IsMalformed(evaluation.rule.args[1])
           \/ MissingPath(evaluation.rule.args[1], evaluation.data))
         => evaluation.result = Bool(TRUE)
    /\ (/\ evaluation.rule.op = "if" /\ Len(evaluation.rule.args) = 3
        /\ \/ IsMalformed(evaluation.rule.args[1])
           \/ MissingPath(evaluation.rule.args[1], evaluation.data))
         => evaluation.result = Bool(FALSE)
    /\ DOMAIN evaluation.visibility = {<<"ruled">>}
    /\ evaluation.visibility[<<"ruled">>] = Truthy(evaluation.result)
    /\ (IsMalformed(evaluation.rule)
        \/ MissingPath(evaluation.rule, evaluation.data))
         => evaluation.visibility[<<"ruled">>] = FALSE

\* regex_match with an invalid pattern was evaluated on a missing variable
C22_Witness ==
  /\ evaluation.done
  /\ evaluation.rule = Op("regex_match", <<Lit(Str("(")), Var(<<"missing">>)>>)
  /\ evaluation.data = EmptyObject
  /\ evaluation.result = Bool(FALSE)
  /\ evaluation.visibility[<<"ruled">>] = FALSE
\* the custom elements of the mounted tree whose component is not in the
\* registry
Unregistered ==
  {ref \in Reachable(heap, call.config) :
     heap[ref].kind = "custom" /\ heap[ref].component \notin call.registry}

\* C21: mounting a form from a configuration with a custom element whose
\* component is not registered fails with a configuration error that names
\* the element's path, and no field of the form renders nothing.
C21_UnregisteredComponentFails ==
  (mount.done /\ Unregistered # {})
    => /\ mount.thrown
       /\ mount.error # ""
       /\ \A i \in 1..Len(mount.rendered) : mount.rendered[i] # "null"
====
